---- MODULE Spec2Model ----
(***************************************************************************)
(* A model of daisyway: the server-side connection manager, the OSK        *)
(* deadman, one rekey round between the server role and the client role,   *)
(* and the key derivation.  Each subsystem has its own specification over  *)
(* its own variables; the other variables stay at their initial values.    *)
(***************************************************************************)
EXTENDS Integers, Sequences, FiniteSets, TLC

(***************************************************************************)
(* Bounds of the model (not program constants).                            *)
(***************************************************************************)
\* Accept events handled after the initial state, from a new manager and
\* from a manager whose budding connections are nearly full.
MaxAccepts == 3
FloodAccepts == 2
\* Events in flight on the manager's notification channel, likewise.
MaxInFlight == 2
FloodInFlight == 1
\* The connections with an id below WatchLow, and all those accepted after
\* the initial state, have their tasks scheduled; the others stay parked in
\* their first QKD fetch.
WatchLow == 1
\* The largest interval_secs a configuration sets.
MaxIntervalSecs == 1
\* Requests in flight on the deadman's request channel.
MaxRequests == 2
\* The time the model lets pass without a request, in erase_after periods.
MaxQuietPeriods == 2
\* Rekey rounds the server role starts on one connection.
MaxRounds == 2
\* Bytes in the stream to the server at which the remote end stops writing
\* bytes of its own.
MaxForeignBytes == 1
\* Osk events the tasks enqueue while the manager's awaits are modelled.
MaxReported == 3
\* Calls of set_osk on the outfile sink.
MaxSets == 2
\* TLS handshakes of the QKD client.
MaxHandshakes == 2
\* Rekey rounds a participant completes.
MaxNegotiated == 4

(***************************************************************************)
(* Program constants.                                                      *)
(***************************************************************************)
MAX_BUDDING_CONNECTIONS == 2000
MANAGER_CHANNEL_CAPACITY == 16
DEADMAN_CHANNEL_CAPACITY == 8
REKEY_INTERVAL == 120
ERASE_MARGIN == 30
KEY_LENGTH == 32
UUID_LENGTH == 16
REKEY_ACK == 1

Fresh == "Fresh"
Stale == "Stale"
SetOskReason == {Fresh, Stale}

\* The output keys a connection task can report.
OskKeys == {"k1", "k2"}

Min(a, b) == IF a <= b THEN a ELSE b
Max(a, b) == IF a >= b THEN a ELSE b
SetMin(S) == CHOOSE x \in S : \A y \in S : x <= y
SetMax(S) == CHOOSE x \in S : \A y \in S : x >= y

VARIABLES
    \* ConnectionManager
    next_connection_id,     \* the next ConnectionId to hand out
    active_connection,      \* Option<(ConnectionId, handle)>: {} or {id}
    budding_connections,    \* BTreeMap<ConnectionId, handle>: its key set
    manager_notification,   \* the mpsc channel from the tasks to the manager
    aborted,                \* tasks whose AbortOnDropHandle was dropped
    finished,               \* tasks that emit nothing any more
    preaccepted,            \* Accept events handled before the initial state
    outcome,                \* what the last manager step did
    last_forward,           \* the last set_osk the manager made on its osk_handler
    max_forwarded,          \* the largest connection id an OSK was forwarded from
    promoted                \* the connection ids promoted to active, in order

VARIABLES
    \* OskDeadman, its worker and the sink (the broker) the worker owns
    interval_secs,          \* etsi014.interval_secs: {} (None) or {seconds}
    erase_after,            \* DeadmanWorker::erase_after, in seconds
    requests,               \* the mpsc channel of DeadmanRequest
    closed,                 \* every OskDeadman handle has been dropped
    worker,                 \* "spawned", "waiting" or "exited"
    since_reset,            \* seconds since next_erase was set
    sink,                   \* the last update the sink observed
    sink_age,               \* seconds since that update
    first_update,           \* the reason of the first update the sink observed
    quiet,                  \* seconds since the worker last received a request
    stales_in_quiet,        \* Stale updates the sink observed in that time
    since_arrival,          \* seconds since a request was last enqueued
    early_requests          \* requests enqueued before the worker ran

dmVars == <<interval_secs, erase_after, requests, closed, worker, since_reset,
            sink, sink_age, first_update, quiet, stales_in_quiet,
            since_arrival, early_requests>>

VARIABLES
    \* derive_daisyway_key applied to drawn inputs
    kdf_params,             \* DaisywayProtocolParameters
    kdf_nonce,              \* Nonce
    kdf_key,                \* Etsi014Key
    kdf_osk,                \* the keys derived: as configured, and swapped
    kdf_conn_id             \* the WireGuardConnectionId that went in

kdfVars == <<kdf_params, kdf_nonce, kdf_key, kdf_osk, kdf_conn_id>>

VARIABLES
    \* one connection: DaisywayServerProtocol and DaisywayClientProtocol
    server_params,          \* the server's DaisywayProtocolParameters
    client_params,          \* the client's
    server_qkd,             \* the server's QKD device: key id -> key
    client_qkd,             \* the client's QKD device: key id -> key
    s2c,                    \* bytes in flight from the server to the client
    c2s,                    \* bytes in flight from the client to the server
    s2c_closed,             \* the server's end of the stream is dropped
    c2s_closed,             \* the client's end of the stream is dropped
    srv,                    \* the server role: pc, round key, nonce
    cli,                    \* the client role: pc, request, round key
    srv_round,              \* rounds the server role started
    srv_fetched,            \* the Etsi014Key of each round
    srv_acks,               \* what the server read as acknowledgement
    srv_delivered,          \* the OSKs the server role gave its osk_handler
    cli_delivered,          \* the OSKs the client role gave its osk_handler
    cli_fetched,            \* the Etsi014Key of each fetch_specific_key
    srv_written,            \* RekeyReq messages the server role wrote
    cli_acked               \* acknowledgements the client role wrote

rndVars == <<server_params, client_params, server_qkd, client_qkd, s2c, c2s,
             s2c_closed, c2s_closed, srv, cli, srv_round, srv_fetched, srv_acks,
             srv_delivered, cli_delivered, cli_fetched, srv_written, cli_acked>>

VARIABLES
    \* the process: one participant, its deadman worker thread
    participant,            \* DaisywayTcpParticipant: "Client" or "Server"
    panic_strategy,         \* the build's panic strategy
    process,                \* "running" or "exited"
    deadman_thread,         \* the worker's std::thread: "running", "panicked"
    deadman_queued,         \* requests in the worker's channel
    participant_pc,         \* where the participant's event loop is
    negotiated,             \* rekey rounds the participant completed
    failed_sends,           \* set_fresh_osk calls that returned Err
    late_rounds,            \* rounds completed after such an Err
    connections,            \* live streams, each with its protocol instance
    retry_slept,            \* seconds the client driver last slept
    config,                 \* DaisywayConfig: which sink options are set
    target_os,              \* the build's target_os
    sink_kind               \* the sink Daisyway::from_config chose

procVars == <<participant, panic_strategy, process, deadman_thread,
              deadman_queued, participant_pc, negotiated, failed_sends,
              late_rounds, connections, retry_slept,
                   config, target_os, sink_kind>>

VARIABLES
    \* ConnectionManager::event_loop and the deadman channel behind its
    \* osk_handler
    manager_pc,             \* "select", or "set_osk": awaiting the forward
    pending,                \* the request the manager is sending, if any
    deadman_rx,             \* requests in the deadman's channel
    handled,                \* the forwards the manager's handlers made
    received,               \* how many requests the deadman worker took
    reported,               \* Osk events the tasks enqueued
    exit_handled,           \* the connections whose Exit the manager handled
    deadman_open            \* the deadman's receiver has not been dropped

serVars == <<manager_pc, pending, deadman_rx, handled, received, reported,
             exit_handled, deadman_open>>

VARIABLES
    \* OutfileOskHandler and a reader of its file
    out_file,               \* the file at the configured path: its bytes
    out_pc,                 \* where set_osk_impl is
    out_key,                \* the encoded key set_osk_impl is writing
    out_complete,           \* the encoded key of the last completed set_osk
    out_read,               \* what the reader last read from the path
    out_sets                \* calls of set_osk started

outVars == <<out_file, out_pc, out_key, out_complete, out_read, out_sets>>

VARIABLES
    \* the TLS handshake of the QKD client with its device
    tls_danger,             \* danger_allow_insecure_no_server_name_certificates
    tls_pc,                 \* where the handshake is
    tls_inner,              \* what the WebPKI verifier says of the certificate
    tls_result,             \* what the configured verifier returned
    tls_handshakes          \* handshakes started

tlsVars == <<tls_danger, tls_pc, tls_inner, tls_result, tls_handshakes>>

VARIABLES
    \* DaisywayServerProtocol::event_loop of the active connection, on a clock
    role_pc,                \* "connecting", "negotiate_key" or "sleep"
    role_clock              \* seconds spent at role_pc

cadVars == <<role_pc, role_clock>>

mgrVars == <<next_connection_id, active_connection, budding_connections,
             manager_notification, aborted, finished, preaccepted, outcome,
             last_forward, max_forwarded, promoted>>

vars == <<mgrVars, dmVars, kdfVars, rndVars, procVars, serVars, outVars,
          tlsVars, cadVars>>

(***************************************************************************)
(* Connection manager                                                      *)
(***************************************************************************)
NoForward == [cid |-> -1, key |-> "none", reason |-> "None"]

OskEvent(cid, key, reason) ==
    [kind |-> "Osk", connection_id |-> cid, key |-> key, reason |-> reason]
ExitEvent(cid) ==
    [kind |-> "Exit", connection_id |-> cid, key |-> "none", reason |-> "None"]

\* ConnectionManager::new, followed by `n` Accept events and nothing else:
\* n tasks spawned, none of which has reported anything yet.
ManagerAfterAccepts(n) ==
    /\ next_connection_id = n
    /\ active_connection = {}
    /\ budding_connections = 0..(n - 1)
    /\ manager_notification = <<>>
    /\ aborted = {}
    /\ finished = {}
    /\ preaccepted = n
    /\ outcome = "new"
    /\ last_forward = NoForward
    /\ max_forwarded = -1
    /\ promoted = <<>>

MgrInit == ManagerAfterAccepts(0)

\* The manager one Accept short of a full set of budding connections.
FloodInit == ManagerAfterAccepts(MAX_BUDDING_CONNECTIONS - 1)

\* active_connection_id(): Option<ConnectionId>
active_connection_id == active_connection

\* The test of on_accept: is there no space left in the budding connections?
budding_full_mutant(budding) == Cardinality(budding) > MAX_BUDDING_CONNECTIONS
budding_full(budding) == Cardinality(budding) >= MAX_BUDDING_CONNECTIONS

\* BTreeMap::pop_first: the entry with the smallest key is removed.
pop_first_mutant(budding) == SetMax(budding)
pop_first(budding) == SetMin(budding)

\* AbortOnDropHandle::drop for every handle in `ids`: abort() is asked of each
\* task; a task that already finished is not affected.
drop_handles(ids) == aborted' = aborted \cup (ids \ finished)

\* allocate_connection_id(): the id handed out and the counter afterwards.
allocate_connection_id_mutant ==
    [connection_id |-> next_connection_id + 1, next |-> next_connection_id + 1]
allocate_connection_id ==
    [connection_id |-> next_connection_id, next |-> next_connection_id + 1]

on_accept ==
    LET connection_id == allocate_connection_id.connection_id
        pruned == IF budding_full(budding_connections)
                  THEN {pop_first(budding_connections)} ELSE {}
    IN  /\ next_connection_id' = allocate_connection_id.next
        /\ budding_connections' =
               (budding_connections \ pruned) \cup {connection_id}
        /\ drop_handles(pruned)
        /\ outcome' = IF pruned = {} THEN "accepted" ELSE "accepted_pruned"
        /\ UNCHANGED <<active_connection, manager_notification, finished,
                       preaccepted, last_forward, max_forwarded, promoted>>

\* The branch on_exit takes: the active connection, else a budding one
\* (remove(..).is_some()), else none.
exit_branch_mutant(conn_id, active_id, budding) ==
    IF active_id # {} THEN "active"
    ELSE IF conn_id \in budding THEN "budding"
    ELSE "none"
exit_branch(conn_id, active_id, budding) ==
    IF {conn_id} = active_id THEN "active"
    ELSE IF conn_id \in budding THEN "budding"
    ELSE "none"

on_exit(ev) ==
    LET conn_id == ev.connection_id
        branch == exit_branch(conn_id, active_connection_id,
                              budding_connections)
    IN
    /\ IF branch = "active"
       THEN /\ active_connection' = {}
            /\ drop_handles(active_connection)
            /\ outcome' = "active_exited"
            /\ UNCHANGED budding_connections
       ELSE IF branch = "budding"
       THEN /\ budding_connections' = budding_connections \ {conn_id}
            /\ drop_handles({conn_id})
            /\ outcome' = "budding_exited"
            /\ UNCHANGED active_connection
       ELSE /\ outcome' = "exit_unknown"
            /\ UNCHANGED <<active_connection, budding_connections, aborted>>
    /\ UNCHANGED <<next_connection_id, finished, preaccepted, last_forward,
                   max_forwarded, promoted>>

\* conn_id.cmp(&active), with no active connection counted as Greater.
conn_lifecycle_mutant(conn_id, active_id) ==
    IF active_id = {} THEN "Greater"
    ELSE LET active == CHOOSE a \in active_id : TRUE IN
         IF conn_id <= active THEN "Equal" ELSE "Greater"
conn_lifecycle(conn_id, active_id) ==
    IF active_id = {} THEN "Greater"
    ELSE LET active == CHOOSE a \in active_id : TRUE IN
         IF conn_id < active THEN "Less"
         ELSE IF conn_id = active THEN "Equal"
         ELSE "Greater"

\* self.osk_handler.set_osk(ev.key, ev.reason)
forward_mutant(ev) ==
    /\ last_forward' = [cid |-> ev.connection_id, key |-> ev.key,
                        reason |-> Stale]
    /\ max_forwarded' = Max(max_forwarded, ev.connection_id)
forward(ev) ==
    /\ last_forward' = [cid |-> ev.connection_id, key |-> ev.key,
                        reason |-> ev.reason]
    /\ max_forwarded' = Max(max_forwarded, ev.connection_id)

on_osk_from_stale(ev) ==
    /\ outcome' = "discarded_stale"
    /\ UNCHANGED <<active_connection, budding_connections, aborted,
                   last_forward, max_forwarded, promoted>>

on_osk_from_active(ev) ==
    /\ forward(ev)
    /\ outcome' = "forwarded_active"
    /\ UNCHANGED <<active_connection, budding_connections, aborted, promoted>>

\* split_off(&new_active_id) followed by the swap: the map keeps the keys
\* >= new_active_id, `removed` holds the keys below it.
kept_after_promotion_mutant(budding, new_active_id) ==
    {b \in budding : b < new_active_id}
kept_after_promotion(budding, new_active_id) ==
    {b \in budding : b >= new_active_id}

\* self.active_connection = Some((new_active_id, new_active_handle))
new_active_connection_mutant(new_active_id, old_active_id) ==
    IF old_active_id = {} THEN {new_active_id} ELSE old_active_id
new_active_connection(new_active_id, old_active_id) == {new_active_id}

\* budding_connections.remove(&new_active_id) returned Some(handle).
remove_is_some_mutant(budding, id) == TRUE
remove_is_some(budding, id) == id \in budding

on_osk_from_budding(ev) ==
    LET new_active_id == ev.connection_id
        old_active_id == active_connection_id
    IN  IF ~remove_is_some(budding_connections, new_active_id)
        THEN /\ outcome' = "ignored_unknown"
             /\ UNCHANGED <<active_connection, budding_connections, aborted,
                            last_forward, max_forwarded, promoted>>
        ELSE LET rest == budding_connections \ {new_active_id}
                 kept == kept_after_promotion(rest, new_active_id)
                 removed == rest \ kept
             IN  /\ budding_connections' = kept
                 /\ active_connection' =
                        new_active_connection(new_active_id, old_active_id)
                 /\ drop_handles(removed \cup old_active_id)
                 /\ promoted' = Append(promoted, new_active_id)
                 /\ forward(ev)
                 /\ outcome' = "promoted"

on_osk(ev) ==
    LET lifecycle == conn_lifecycle(ev.connection_id, active_connection_id) IN
    /\ CASE lifecycle = "Less" -> on_osk_from_stale(ev)
         [] lifecycle = "Equal" -> on_osk_from_active(ev)
         [] OTHER -> on_osk_from_budding(ev)
    /\ UNCHANGED <<next_connection_id, finished, preaccepted>>

\* event_loop, the listener's branch of the select.
Accept ==
    /\ next_connection_id < preaccepted +
           (IF preaccepted = 0 THEN MaxAccepts ELSE FloodAccepts)
    /\ on_accept

\* event_loop, the channel's branch of the select.
HandleExit ==
    /\ manager_notification # <<>>
    /\ Head(manager_notification).kind = "Exit"
    /\ manager_notification' = Tail(manager_notification)
    /\ on_exit(Head(manager_notification))

HandleOsk ==
    /\ manager_notification # <<>>
    /\ Head(manager_notification).kind = "Osk"
    /\ manager_notification' = Tail(manager_notification)
    /\ on_osk(Head(manager_notification))

\* The tasks the model schedules.
Watched ==
    (0..(Min(WatchLow, next_connection_id) - 1))
        \cup (preaccepted..(next_connection_id - 1))

\* A task can still complete a send: it has not finished, and if abort() was
\* asked of it, it is in the poll that abort() lets it complete.
CanSend_mutant(c) == c \in Watched
CanSend(c) == c \in Watched /\ c \notin finished

\* The keys the tasks report: any of OskKeys from a new manager, one key in
\* the flood.
ReportedKeys == IF preaccepted = 0 THEN OskKeys ELSE {"k1"}

ChannelHasRoom ==
    /\ Len(manager_notification) < MANAGER_CHANNEL_CAPACITY
    /\ Len(manager_notification) <
           (IF preaccepted = 0 THEN MaxInFlight ELSE FloodInFlight)

\* FanoutOskHandler::set_osk, called by DaisywayServerProtocol::event_loop
\* with set_fresh_osk after a round.
TaskOsk ==
    \E c \in Watched, k \in ReportedKeys :
        /\ CanSend(c)
        /\ ChannelHasRoom
        /\ manager_notification' =
               Append(manager_notification, OskEvent(c, k, Fresh))
        \* an aborted task stops at the suspension point that follows
        /\ finished' = IF c \in aborted THEN finished \cup {c} ELSE finished
        /\ UNCHANGED <<next_connection_id, active_connection,
                       budding_connections, aborted, preaccepted, outcome,
                       last_forward, max_forwarded, promoted>>

\* FanoutConnectionHandler::init_task, after the protocol's event loop ended.
TaskExit ==
    \E c \in Watched :
        /\ CanSend(c)
        /\ ChannelHasRoom
        /\ manager_notification' = Append(manager_notification, ExitEvent(c))
        /\ finished' = finished \cup {c}
        /\ UNCHANGED <<next_connection_id, active_connection,
                       budding_connections, aborted, preaccepted, outcome,
                       last_forward, max_forwarded, promoted>>

\* Base64::encoded_len: the length of the padded encoding of `n` bytes.
Base64_encoded_len(n) == 4 * ((n + 2) \div 3)

\* A ResponseKey's `key` string: whether it is Base64 at all, and the number
\* of bytes it decodes to if it is.  The string is the padded encoding.
ResponseKey(is_base64, decoded_len) ==
    [is_base64 |-> is_base64, decoded_len |-> decoded_len,
     chars |-> Base64_encoded_len(decoded_len)]

\* TryFrom<ResponseKey> for Etsi014Key: Ok, Err, or a panic.  The assert!
\* compares the encoded length of the string itself with Key::LEN; decode
\* into the 32-byte buffer is unwrapped; try_into wants exactly 32 bytes.
Etsi014Key_try_from(value) ==
    IF Base64_encoded_len(value.chars) = KEY_LENGTH THEN "panic"
    ELSE IF ~value.is_base64 \/ value.decoded_len > KEY_LENGTH THEN "panic"
    ELSE IF value.decoded_len # KEY_LENGTH THEN "Err"
    ELSE "Ok"

\* The keys a QKD device's response may carry: a 32-byte key, a 16-byte key,
\* a 30-byte key, a 64-byte key, and a string that is not Base64.
ResponseKeys ==
    {ResponseKey(TRUE, KEY_LENGTH), ResponseKey(TRUE, 16),
     ResponseKey(TRUE, 30), ResponseKey(TRUE, 64),
     ResponseKey(FALSE, KEY_LENGTH)}

\* A connection's task panics in fetch_key_internal, converting the device's
\* response: the task is over, and init_task never gets to its send.
TaskPanic ==
    \E c \in Watched, response \in ResponseKeys :
        /\ CanSend(c)
        /\ c \notin aborted
        /\ Etsi014Key_try_from(response) = "panic"
        /\ finished' = finished \cup {c}
        /\ UNCHANGED <<next_connection_id, active_connection,
                       budding_connections, manager_notification, aborted,
                       preaccepted, outcome, last_forward, max_forwarded,
                       promoted>>

(***************************************************************************)
(* OSK deadman                                                             *)
(***************************************************************************)
\* A key drawn by rand::rng().random().
RandomKey == "random"

\* What the sink holds before the worker touches it.
Preexisting ==
    [reason |-> "None", key |-> "preexisting", cause |-> "preexisting",
     prev |-> "None", spaced |-> FALSE, idle |-> 0]

\* cfg.etsi014.interval_secs.unwrap_or(REKEY_INTERVAL)
rekey_interval(cfg) ==
    IF cfg = {} THEN REKEY_INTERVAL ELSE CHOOSE v \in cfg : TRUE

\* start_deadman: Duration::from_secs(rekey_interval + 30)
start_deadman_mutant(interval) == interval + 2 * ERASE_MARGIN
start_deadman(interval) == interval + ERASE_MARGIN

IntervalSecsConfigs == {{}} \cup {{v} : v \in 0..MaxIntervalSecs}

\* OskDeadman::start: the channel exists and the worker thread is spawned, but
\* has not run yet.
DmInit ==
    /\ interval_secs \in IntervalSecsConfigs
    /\ erase_after = start_deadman(rekey_interval(interval_secs))
    /\ requests = <<>>
    /\ closed = FALSE
    /\ worker = "spawned"
    /\ since_reset = 0
    /\ sink = Preexisting
    /\ sink_age = 0
    /\ first_update = "None"
    /\ quiet = 0
    /\ stales_in_quiet = 0
    /\ since_arrival = 0
    /\ early_requests = 0

\* No deadman: the state of these variables under the other specifications.
DmIdle ==
    /\ interval_secs = {}
    /\ erase_after = 0
    /\ requests = <<>>
    /\ closed = FALSE
    /\ worker = "none"
    /\ since_reset = 0
    /\ sink = Preexisting
    /\ sink_age = 0
    /\ first_update = "None"
    /\ quiet = 0
    /\ stales_in_quiet = 0
    /\ since_arrival = 0
    /\ early_requests = 0

\* OskHandler::set_osk on the broker: the sink observes one update.
set_osk_mutant(state, key, reason, cause, idle) ==
    [reason |-> reason, key |-> state.key, cause |-> cause,
     prev |-> state.reason, spaced |-> sink_age > 0, idle |-> idle]
set_osk(state, key, reason, cause, idle) ==
    [reason |-> reason, key |-> key, cause |-> cause, prev |-> state.reason,
     spaced |-> sink_age > 0, idle |-> idle]

\* OskHandler::erase_stale_osk: set_osk(random key, Stale).
erase_stale_osk_mutant(state, cause, idle) ==
    set_osk(state, state.key, Stale, cause, idle)
erase_stale_osk(state, cause, idle) ==
    set_osk(state, RandomKey, Stale, cause, idle)

\* The updates `event_loop` makes before it enters its loop.
startup_updates_mutant == <<>>
startup_updates == <<"erase_stale_osk">>

\* The updates `event_loop` makes when the deadline passed with no request.
timeout_updates_mutant == <<>>
timeout_updates == <<"erase_stale_osk">>

\* The updates `event_loop` makes when recv() tells it the channel is closed.
shutdown_updates_mutant == <<"erase_stale_osk", "erase_stale_osk">>
shutdown_updates == <<"erase_stale_osk">>

\* next_erase = Instant::now() + erase_after, at the top of every iteration:
\* the seconds already counted against the new deadline.
restart_deadline_mutant(elapsed) == elapsed
restart_deadline(elapsed) == 0

\* The sink after the worker made the erasures `updates`.
RECURSIVE erased(_, _, _, _)
erased(state, updates, cause, idle) ==
    IF updates = <<>> THEN state
    ELSE erased(erase_stale_osk(state, cause, idle), Tail(updates), cause, idle)

observe(updates, reason) ==
    /\ first_update' = IF first_update = "None" /\ updates # <<>>
                       THEN reason ELSE first_update
    /\ sink_age' = IF updates # <<>> THEN 0 ELSE sink_age

\* OskDeadman::set_osk_impl, called through set_fresh_osk by a protocol role or
\* with a connection's OSK by the connection manager.
DmSend ==
    \E key \in OskKeys :
        /\ ~closed
        /\ worker # "exited"
        /\ Len(requests) < DEADMAN_CHANNEL_CAPACITY
        /\ Len(requests) < MaxRequests
        /\ requests' = Append(requests, [key |-> key, reason |-> Fresh])
        /\ since_arrival' = 0
        /\ early_requests' = IF worker = "spawned"
                             THEN Min(early_requests + 1, MaxRequests)
                             ELSE early_requests
        /\ UNCHANGED <<interval_secs, erase_after, closed, worker,
                       since_reset, sink, sink_age, first_update, quiet,
                       stales_in_quiet>>

\* The last OskDeadman handle is dropped.
DmDropHandles ==
    /\ ~closed
    /\ worker # "exited"
    /\ closed' = TRUE
    /\ UNCHANGED <<interval_secs, erase_after, requests, worker, since_reset,
                   sink, sink_age, first_update, quiet, stales_in_quiet,
                   since_arrival, early_requests>>

\* DeadmanWorker::event_loop up to its first wait.
WorkerStart ==
    /\ worker = "spawned"
    /\ sink' = erased(sink, startup_updates, "startup", 0)
    /\ observe(startup_updates, Stale)
    /\ worker' = "waiting"
    /\ since_reset' = 0
    /\ quiet' = 0
    /\ stales_in_quiet' = 0
    /\ UNCHANGED <<interval_secs, erase_after, requests, closed,
                   since_arrival, early_requests>>

\* recv() returned a request: forward it, then wait again.
WorkerRequest ==
    /\ worker = "waiting"
    /\ requests # <<>>
    /\ LET req == Head(requests) IN
       /\ sink' = set_osk(sink, req.key, req.reason, "request", 0)
       /\ observe(<<req>>, req.reason)
    /\ requests' = Tail(requests)
    /\ since_reset' = restart_deadline(since_reset)
    /\ quiet' = 0
    /\ stales_in_quiet' = 0
    /\ UNCHANGED <<interval_secs, erase_after, closed, worker, since_arrival,
                   early_requests>>

\* timeout_at elapsed with no request: erase, then wait again.
WorkerTimeout ==
    /\ worker = "waiting"
    /\ requests = <<>>
    /\ ~closed
    /\ since_reset >= erase_after
    /\ sink' = erased(sink, timeout_updates, "timeout", since_arrival)
    /\ observe(timeout_updates, Stale)
    /\ since_reset' = 0
    /\ stales_in_quiet' = stales_in_quiet + Len(timeout_updates)
    /\ UNCHANGED <<interval_secs, erase_after, requests, closed, worker,
                   quiet, since_arrival, early_requests>>

\* recv() returned None, the channel is closed and empty: erase and return.
WorkerShutdown ==
    /\ worker = "waiting"
    /\ requests = <<>>
    /\ closed
    /\ sink' = erased(sink, shutdown_updates, "shutdown", since_arrival)
    /\ observe(shutdown_updates, Stale)
    /\ worker' = "exited"
    /\ UNCHANGED <<interval_secs, erase_after, requests, closed, since_reset,
                   quiet, stales_in_quiet, since_arrival, early_requests>>

\* One second passes.  The worker runs on a thread of its own: a request in
\* the channel, a closed channel or an elapsed deadline is acted on before
\* the clock moves on.
Tick ==
    /\ worker = "waiting"
    /\ requests = <<>>
    /\ ~closed
    /\ since_reset < erase_after
    /\ quiet < MaxQuietPeriods * erase_after
    /\ since_reset' = since_reset + 1
    /\ sink_age' = sink_age + 1
    /\ quiet' = quiet + 1
    /\ since_arrival' = since_arrival + 1
    /\ UNCHANGED <<interval_secs, erase_after, requests, closed, worker, sink,
                   first_update, stales_in_quiet, early_requests>>

(***************************************************************************)
(* Key derivation                                                          *)
(***************************************************************************)
Rep(b, n) == [i \in 1..n |-> b]

\* [u8; N] compared as arrays are: by the first position that differs.
RECURSIVE LexLeq(_, _)
LexLeq(a, b) ==
    IF a = <<>> \/ b = <<>> THEN a = <<>>
    ELSE IF Head(a) # Head(b) THEN Head(a) < Head(b)
    ELSE LexLeq(Tail(a), Tail(b))

\* [a, b].sort()
sort_pair_mutant(a, b) == <<a, b>>
sort_pair(a, b) == IF LexLeq(a, b) THEN <<a, b>> ELSE <<b, a>>

\* WireGuardConnectionId::new
WireGuardConnectionId(self_public_key, peer_public_key) ==
    LET sorted == sort_pair(self_public_key, peer_public_key) IN
    [first_peer |-> sorted[1], second_peer |-> sorted[2]]

\* A Uuid holds its 16 bytes in field order.
Uuid_from_bytes(bytes) == [bytes |-> bytes]
Uuid_as_bytes(id) == id.bytes
\* Uuid::to_bytes_le: the first three fields byte-swapped.
Uuid_to_bytes_le(id) ==
    LET b == id.bytes IN
    <<b[4], b[3], b[2], b[1], b[6], b[5], b[8], b[7]>> \o SubSeq(b, 9, 16)

\* KdfInput::new and its as_bytes(): the packed fields in declaration order.
KdfInput_mutant(psk, nonce, qkd_key, wireguard_connection_id) ==
    psk \o nonce \o qkd_key.key \o Uuid_to_bytes_le(qkd_key.id)
        \o wireguard_connection_id.first_peer
KdfInput(psk, nonce, qkd_key, wireguard_connection_id) ==
    psk \o nonce \o qkd_key.key \o Uuid_to_bytes_le(qkd_key.id)
        \o wireguard_connection_id.first_peer
        \o wireguard_connection_id.second_peer

\* SHAKE-256 as an ideal hash: the first `n` output bytes stand for what was
\* absorbed. mix_begin_reader absorbs the 32-byte domain key and then the
\* data; the key's length being fixed, the pair stands for the concatenation.
Shake256(absorbed, n) == [shake256 |-> absorbed, read |-> n]

\* HashDomain
HashDomain_zero == [key |-> Rep(0, KEY_LENGTH)]
HashDomain_mix(domain, data) ==
    [key |-> Shake256(<<domain.key, data>>, KEY_LENGTH)]
HashDomain_into_key(domain) == domain.key

PROTOCOL_DOMAIN_mutant ==
    "Daisyway v1 by Paul Spooren & Karolin Varner, Feb-2025 with Shake2"
PROTOCOL_DOMAIN ==
    "Daisyway v1 by Paul Spooren & Karolin Varner, Feb-2025 with Shake256"
ProtocolDomains_root == HashDomain_mix(HashDomain_zero, PROTOCOL_DOMAIN)
ProtocolDomains_derive_key == HashDomain_mix(ProtocolDomains_root, "derive key")

derive_daisyway_key(params, nonce, key) ==
    LET conn_id == WireGuardConnectionId(params.local_peer_id,
                                         params.remote_peer_id)
        kdf_input == KdfInput(params.psk, nonce, key, conn_id)
    IN  HashDomain_into_key(HashDomain_mix(ProtocolDomains_derive_key, kdf_input))

\* The inputs drawn.
PeerIds ==
    {Rep(1, KEY_LENGTH), Rep(2, KEY_LENGTH),
     [Rep(1, KEY_LENGTH) EXCEPT ![KEY_LENGTH] = 2],
     [Rep(2, KEY_LENGTH) EXCEPT ![KEY_LENGTH] = 0]}
Psks == {Rep(0, KEY_LENGTH), Rep(9, KEY_LENGTH)}
Nonces == {Rep(3, KEY_LENGTH), [Rep(3, KEY_LENGTH) EXCEPT ![1] = 200]}
QkdKeyValues == {Rep(4, KEY_LENGTH), Rep(6, KEY_LENGTH)}
\* A key id, the key id whose field order is its little-endian order, and one
\* that reads the same in both orders.
UuidA == Uuid_from_bytes([i \in 1..UUID_LENGTH |-> i])
UuidB == Uuid_from_bytes(Uuid_to_bytes_le(UuidA))
UuidC == Uuid_from_bytes(Rep(5, UUID_LENGTH))
QkdKeyIds == {UuidA, UuidB, UuidC}

Swapped(params) ==
    [psk |-> params.psk, local_peer_id |-> params.remote_peer_id,
     remote_peer_id |-> params.local_peer_id]

NoEtsiKey == [id |-> Uuid_from_bytes(<<>>), key |-> <<>>]
NoParams == [psk |-> <<>>, local_peer_id |-> <<>>, remote_peer_id |-> <<>>]

KdfInit ==
    /\ kdf_params \in [psk : Psks, local_peer_id : PeerIds,
                       remote_peer_id : PeerIds]
    /\ kdf_nonce \in Nonces
    /\ kdf_key \in [id : {UuidA, UuidC}, key : QkdKeyValues]
    /\ kdf_osk = [local |-> <<>>, peer |-> <<>>]
    /\ kdf_conn_id = <<>>

KdfIdle ==
    /\ kdf_params = NoParams
    /\ kdf_nonce = <<>>
    /\ kdf_key = NoEtsiKey
    /\ kdf_osk = [local |-> <<>>, peer |-> <<>>]
    /\ kdf_conn_id = <<>>

\* derive_daisyway_key at the end configured with kdf_params.
DeriveLocal ==
    /\ kdf_params # NoParams
    /\ kdf_osk.local = <<>>
    /\ kdf_osk' = [kdf_osk EXCEPT
           !.local = <<derive_daisyway_key(kdf_params, kdf_nonce, kdf_key)>>]
    /\ kdf_conn_id' = <<WireGuardConnectionId(kdf_params.local_peer_id,
                                              kdf_params.remote_peer_id)>>
    /\ UNCHANGED <<kdf_params, kdf_nonce, kdf_key>>

\* derive_daisyway_key at the other end, which has local_peer_id and
\* remote_peer_id the other way round.
DerivePeer ==
    /\ kdf_params # NoParams
    /\ kdf_osk.peer = <<>>
    /\ kdf_osk' = [kdf_osk EXCEPT
           !.peer = <<derive_daisyway_key(Swapped(kdf_params), kdf_nonce,
                                          kdf_key)>>]
    /\ UNCHANGED <<kdf_params, kdf_nonce, kdf_key, kdf_conn_id>>

(***************************************************************************)
(* One rekey connection: the server role and the client role               *)
(***************************************************************************)
\* RekeyReq: the packed fields in declaration order, 16 + 32 bytes.
RekeyReq(qkd_key_id, nonce) == [qkd_key_id |-> qkd_key_id, nonce |-> nonce]
RekeyReq_LEN == UUID_LENGTH + KEY_LENGTH
RekeyReq_as_bytes(req) == req.qkd_key_id \o req.nonce
RekeyReq_from_bytes(bytes) ==
    [qkd_key_id |-> SubSeq(bytes, 1, UUID_LENGTH),
     nonce |-> SubSeq(bytes, UUID_LENGTH + 1, RekeyReq_LEN)]

\* RekeyAck: one byte.
RekeyAck(byte) == [dummy_data |-> byte]
RekeyAck_as_bytes(ack) == <<ack.dummy_data>>
RekeyAck_validate_mutant(ack) == TRUE
RekeyAck_validate(ack) == ack = RekeyAck(REKEY_ACK)

\* The key id the server role puts in its RekeyReq.
rekey_req_key_id_mutant(key) == Uuid_to_bytes_le(key.id)
rekey_req_key_id(key) == Uuid_as_bytes(key.id)

\* What the QKD device of the server's end holds, and what the client's may
\* hold: the same, or another key under the first id.
ServerQkdTable == [id \in {UuidA, UuidB} |-> Rep(4, KEY_LENGTH)]
QkdTables ==
    {ServerQkdTable, [ServerQkdTable EXCEPT ![UuidA] = Rep(6, KEY_LENGTH)]}
RoundPeerIds ==
    {Rep(1, KEY_LENGTH), [Rep(1, KEY_LENGTH) EXCEPT ![KEY_LENGTH] = 2]}
\* Bytes an acknowledgement may arrive as when it is not the one sent.
ForeignAckBytes == {0, 2, 255}

\* Bytes a remote end writes on its own.
RemoteBytes == {0, REKEY_ACK}

Pending == [read |-> "pending", byte |-> 0]
ReadFailed == [read |-> "failed", byte |-> 0]
ReadByte(b) == [read |-> "byte", byte |-> b]

RoleStart(pc) ==
    [pc |-> pc, key |-> NoEtsiKey, nonce |-> <<>>, osk |-> <<>>,
     req |-> RekeyReq(<<>>, <<>>)]

RoundState(sp, sq, cq, pc_srv, pc_cli) ==
    /\ server_params = sp
    /\ client_params = Swapped(sp)
    /\ server_qkd = sq
    /\ client_qkd = cq
    /\ s2c = <<>>
    /\ c2s = <<>>
    /\ s2c_closed = FALSE
    /\ c2s_closed = FALSE
    /\ srv = RoleStart(pc_srv)
    /\ cli = RoleStart(pc_cli)
    /\ srv_round = 0
    /\ srv_fetched = <<>>
    /\ srv_acks = <<>>
    /\ srv_delivered = <<>>
    /\ cli_delivered = <<>>
    /\ cli_fetched = <<>>
    /\ srv_written = 0
    /\ cli_acked = 0

\* DaisywayServerProtocol::event_loop: the loop's first statement is
\* negotiate_key, the sleep comes last.
server_event_loop_entry_mutant == "sleep"
server_event_loop_entry == "fetch"

\* Both ends are configured with the shared psk and each other's public key.
RndInit ==
    \E sp \in [psk : {Rep(0, KEY_LENGTH)}, local_peer_id : RoundPeerIds,
               remote_peer_id : RoundPeerIds],
       sq \in {ServerQkdTable}, cq \in QkdTables :
        RoundState(sp, sq, cq, server_event_loop_entry, "read_req")

RndIdle == RoundState(NoParams, <<>>, <<>>, "idle", "idle")

\* Etsi014Connection::fetch_any_key: the device hands out a key it has not
\* handed out before.
fetch_any_key_ids ==
    DOMAIN server_qkd \ {srv_fetched[r].id : r \in 1..Len(srv_fetched)}

\* DaisywayServerProtocol::negotiate_key, up to the QKD device's answer.
SrvFetch ==
    /\ srv.pc = "fetch"
    /\ srv_round < MaxRounds
    /\ srv_round' = srv_round + 1
    /\ srv_acks' = Append(srv_acks, Pending)
    /\ \/ \E id \in fetch_any_key_ids :
            LET key == [id |-> id, key |-> server_qkd[id]] IN
            /\ srv' = [srv EXCEPT !.pc = "write_req", !.key = key]
            /\ srv_fetched' = Append(srv_fetched, key)
            /\ UNCHANGED s2c_closed
       \/ /\ srv' = [srv EXCEPT !.pc = "failed"]
          /\ srv_fetched' = Append(srv_fetched, NoEtsiKey)
          /\ s2c_closed' = TRUE
    /\ UNCHANGED <<server_params, client_params, server_qkd, client_qkd, s2c,
                   c2s, c2s_closed, cli, srv_delivered, cli_delivered,
                   cli_fetched, srv_written, cli_acked>>

\* negotiate_key: RekeyReq::new with a random nonce, and write_all.
SrvWriteReq ==
    /\ srv.pc = "write_req"
    /\ \E nonce \in Nonces :
        LET rekey_req == RekeyReq(rekey_req_key_id(srv.key), nonce) IN
        /\ s2c' = s2c \o RekeyReq_as_bytes(rekey_req)
        /\ srv' = [srv EXCEPT !.pc = "read_ack", !.nonce = rekey_req.nonce]
    /\ srv_written' = srv_written + 1
    /\ UNCHANGED <<server_params, client_params, server_qkd, client_qkd, c2s,
                   s2c_closed, c2s_closed, cli, srv_round, srv_fetched,
                   srv_acks, srv_delivered, cli_delivered,
                   cli_fetched, cli_acked>>

\* negotiate_key: read_exact of the acknowledgement, validate, derive.
SrvReadAck ==
    /\ srv.pc = "read_ack"
    /\ \/ /\ Len(c2s) >= 1
          /\ LET ack == RekeyAck(Head(c2s)) IN
             /\ srv_acks' = [srv_acks EXCEPT ![srv_round] = ReadByte(Head(c2s))]
             /\ c2s' = Tail(c2s)
             /\ IF RekeyAck_validate(ack)
                THEN /\ srv' = [srv EXCEPT
                            !.pc = "deliver",
                            !.osk = <<derive_daisyway_key(server_params,
                                                          srv.nonce, srv.key)>>]
                     /\ UNCHANGED s2c_closed
                ELSE /\ srv' = [srv EXCEPT !.pc = "failed"]
                     /\ s2c_closed' = TRUE
       \/ /\ c2s = <<>>
          /\ c2s_closed
          /\ srv_acks' = [srv_acks EXCEPT ![srv_round] = ReadFailed]
          /\ srv' = [srv EXCEPT !.pc = "failed"]
          /\ s2c_closed' = TRUE
          /\ UNCHANGED c2s
    /\ UNCHANGED <<server_params, client_params, server_qkd, client_qkd, s2c,
                   c2s_closed, cli, srv_round, srv_fetched, srv_delivered,
                   cli_delivered, cli_fetched, srv_written, cli_acked>>

\* DaisywayServerProtocol::event_loop: set_fresh_osk with the round's key.
SrvDeliver ==
    /\ srv.pc = "deliver"
    /\ srv_delivered' = Append(srv_delivered, srv.osk[1])
    /\ srv' = [srv EXCEPT !.pc = "sleep"]
    /\ UNCHANGED <<server_params, client_params, server_qkd, client_qkd, s2c,
                   c2s, s2c_closed, c2s_closed, cli, srv_round, srv_fetched,
                   srv_acks, cli_delivered,
                   cli_fetched, srv_written, cli_acked>>

\* event_loop: the sleep of rekey_interval is over.
SrvSleep ==
    /\ srv.pc = "sleep"
    /\ srv' = [srv EXCEPT !.pc = "fetch"]
    /\ UNCHANGED <<server_params, client_params, server_qkd, client_qkd, s2c,
                   c2s, s2c_closed, c2s_closed, cli, srv_round, srv_fetched,
                   srv_acks, srv_delivered, cli_delivered,
                   cli_fetched, srv_written, cli_acked>>

\* DaisywayClientProtocol::wait_for_key_negotiation: read_exact of a RekeyReq.
CliReadReq ==
    /\ cli.pc = "read_req"
    /\ \/ /\ Len(s2c) >= RekeyReq_LEN
          /\ cli' = [cli EXCEPT
                 !.pc = "fetch",
                 !.req = RekeyReq_from_bytes(SubSeq(s2c, 1, RekeyReq_LEN))]
          /\ s2c' = SubSeq(s2c, RekeyReq_LEN + 1, Len(s2c))
          /\ UNCHANGED c2s_closed
       \/ /\ Len(s2c) < RekeyReq_LEN
          /\ s2c_closed
          /\ cli' = [cli EXCEPT !.pc = "failed"]
          /\ c2s_closed' = TRUE
          /\ UNCHANGED s2c
    /\ UNCHANGED <<server_params, client_params, server_qkd, client_qkd, c2s,
                   s2c_closed, srv, srv_round, srv_fetched, srv_acks,
                   srv_delivered, cli_delivered,
                   cli_fetched, srv_written, cli_acked>>

\* Etsi014Connection::fetch_specific_key: the key the device holds under
\* `id`, or an error ({}).
fetch_specific_key(device, id) ==
    IF id \in DOMAIN device THEN {[id |-> id, key |-> device[id]]} ELSE {}

\* wait_for_key_negotiation: the `?` on the result of fetch_specific_key.
after_fetch_mutant(result) == "write_ack"
after_fetch(result) == IF result = {} THEN "failed" ELSE "write_ack"

\* wait_for_key_negotiation: fetch_specific_key for the id in the request.
CliFetch ==
    /\ cli.pc = "fetch"
    /\ LET id == Uuid_from_bytes(cli.req.qkd_key_id) IN
       \E result \in {fetch_specific_key(client_qkd, id), {}} :
          /\ cli' = IF result = {}
                    THEN [cli EXCEPT !.pc = after_fetch(result)]
                    ELSE [cli EXCEPT !.pc = after_fetch(result),
                                     !.nonce = cli.req.nonce,
                                     !.key = CHOOSE k \in result : TRUE]
          /\ cli_fetched' = IF result = {} THEN cli_fetched
                            ELSE Append(cli_fetched, CHOOSE k \in result : TRUE)
          /\ c2s_closed' = (c2s_closed \/ after_fetch(result) = "failed")
    /\ UNCHANGED <<server_params, client_params, server_qkd, client_qkd, s2c,
                   c2s, s2c_closed, srv, srv_round, srv_fetched, srv_acks,
                   srv_delivered, cli_delivered, srv_written, cli_acked>>

\* wait_for_key_negotiation: write_all of REKEY_ACK, derive.
CliWriteAck ==
    /\ cli.pc = "write_ack"
    /\ c2s' = c2s \o RekeyAck_as_bytes(RekeyAck(REKEY_ACK))
    /\ cli_acked' = cli_acked + 1
    /\ cli' = [cli EXCEPT
           !.pc = "deliver",
           !.osk = <<derive_daisyway_key(client_params, cli.nonce, cli.key)>>]
    /\ UNCHANGED <<server_params, client_params, server_qkd, client_qkd, s2c,
                   s2c_closed, c2s_closed, srv, srv_round, srv_fetched,
                   srv_acks, srv_delivered, cli_delivered,
                   cli_fetched, srv_written>>

\* DaisywayClientProtocol::event_loop: set_fresh_osk with the round's key.
CliDeliver ==
    /\ cli.pc = "deliver"
    /\ cli_delivered' = Append(cli_delivered, cli.osk[1])
    /\ cli' = [cli EXCEPT !.pc = "read_req"]
    /\ UNCHANGED <<server_params, client_params, server_qkd, client_qkd, s2c,
                   c2s, s2c_closed, c2s_closed, srv, srv_round, srv_fetched,
                   srv_acks, srv_delivered,
                   cli_fetched, srv_written, cli_acked>>

\* The stream is plain TCP: the byte the server reads need not be the one the
\* client role wrote.
ForeignAck ==
    /\ srv.pc = "read_ack"
    /\ Len(c2s) >= 1
    /\ \E b \in ForeignAckBytes : c2s' = <<b>> \o Tail(c2s)
    /\ UNCHANGED <<server_params, client_params, server_qkd, client_qkd, s2c,
                   s2c_closed, c2s_closed, srv, cli, srv_round, srv_fetched,
                   srv_acks, srv_delivered, cli_delivered,
                   cli_fetched, srv_written, cli_acked>>

\* The remote end of the stream is whoever connected: it can write a byte
\* without having run the client role's round.
RemoteWrites ==
    /\ ~c2s_closed
    /\ srv.pc \notin {"idle", "failed"}
    /\ Len(c2s) < MaxForeignBytes
    /\ \E b \in RemoteBytes : c2s' = Append(c2s, b)
    /\ UNCHANGED <<server_params, client_params, server_qkd, client_qkd, s2c,
                   s2c_closed, c2s_closed, srv, cli, srv_round, srv_fetched,
                   srv_acks, srv_delivered, cli_delivered, cli_fetched,
                   srv_written, cli_acked>>

\* The remote end goes away.
RemoteGone ==
    /\ cli.pc \in {"read_req", "fetch", "write_ack"}
    /\ ~c2s_closed
    /\ cli' = [cli EXCEPT !.pc = "failed"]
    /\ c2s_closed' = TRUE
    /\ UNCHANGED <<server_params, client_params, server_qkd, client_qkd, s2c,
                   c2s, s2c_closed, srv, srv_round, srv_fetched, srv_acks,
                   srv_delivered, cli_delivered,
                   cli_fetched, srv_written, cli_acked>>

(***************************************************************************)
(* Specifications                                                          *)
(***************************************************************************)
(***************************************************************************)
(* The manager's event loop, one await at a time                           *)
(***************************************************************************)
NoRequest == [key |-> "none", reason |-> "None"]

SerState(pc) ==
    /\ manager_pc = pc
    /\ pending = NoRequest
    /\ deadman_rx = <<>>
    /\ handled = <<>>
    /\ received = 0
    /\ reported = 0
    /\ exit_handled = {}
    /\ deadman_open = TRUE

SerInit == SerState("select")
SerIdle == SerState("idle")

\* on_event(ev).await: where event_loop is once a handler has called
\* osk_handler.set_osk; it selects again only when the send has completed.
on_event_await_mutant == "select"
on_event_await == "set_osk"

\* The handler that ran called set_osk.
CalledSetOsk == outcome' \in {"forwarded_active", "promoted"}

SerAccept ==
    /\ manager_pc = "select"
    /\ Accept
    /\ UNCHANGED serVars

SerHandleExit ==
    /\ manager_pc = "select"
    /\ HandleExit
    /\ exit_handled' =
           exit_handled \cup {Head(manager_notification).connection_id}
    /\ UNCHANGED <<manager_pc, pending, deadman_rx, handled, received,
                   reported, deadman_open>>

\* on_osk up to the suspension point of the send in OskDeadman::set_osk_impl.
SerHandleOsk ==
    /\ manager_pc = "select"
    /\ HandleOsk
    /\ IF CalledSetOsk
       THEN LET req == [key |-> last_forward'.key,
                        reason |-> last_forward'.reason]
            IN  /\ pending' = req
                /\ handled' = Append(handled, req)
                /\ manager_pc' = on_event_await
       ELSE UNCHANGED <<pending, handled, manager_pc>>
    /\ UNCHANGED <<deadman_rx, received, reported, exit_handled, deadman_open>>

\* The send completes when the deadman's channel has room; on_event returns.
SerSetOsk ==
    /\ manager_pc = "set_osk"
    /\ deadman_open
    /\ Len(deadman_rx) < Min(DEADMAN_CHANNEL_CAPACITY, MaxRequests)
    /\ deadman_rx' = Append(deadman_rx, pending)
    /\ pending' = NoRequest
    /\ manager_pc' = "select"
    /\ UNCHANGED <<handled, received, reported, exit_handled, deadman_open>>
    /\ UNCHANGED mgrVars

\* DeadmanWorker::event_loop takes the next request.
SerWorkerRecv ==
    /\ deadman_open
    /\ deadman_rx # <<>>
    /\ deadman_rx' = Tail(deadman_rx)
    /\ received' = received + 1
    /\ UNCHANGED <<manager_pc, pending, handled, reported, exit_handled,
                   deadman_open>>
    /\ UNCHANGED mgrVars

SerTaskOsk ==
    /\ reported < MaxReported
    /\ TaskOsk
    /\ reported' = reported + 1
    /\ UNCHANGED <<manager_pc, pending, deadman_rx, handled, received,
                   exit_handled, deadman_open>>

SerTaskExit ==
    /\ TaskExit
    /\ UNCHANGED serVars

SerTaskPanic ==
    /\ TaskPanic
    /\ UNCHANGED serVars

\* event_loop's `?` on accept_res and on on_event(ev).await: where the loop is
\* once either is an Err.
event_loop_on_error_mutant == "select"
event_loop_on_error == "returned_err"

\* The sink fails an update: DeadmanWorker::event_loop returns the error,
\* the worker's thread panics and the receiver of the channel is dropped.
SerWorkerFails ==
    /\ deadman_open
    /\ deadman_open' = FALSE
    /\ UNCHANGED <<manager_pc, pending, deadman_rx, handled, received,
                   reported, exit_handled>>
    /\ UNCHANGED mgrVars

\* OskDeadman::set_osk_impl: send() is an Err once the receiver is dropped,
\* also for a send that was waiting for room; on_event returns it.
SerSetOskFails ==
    /\ manager_pc = "set_osk"
    /\ ~deadman_open
    /\ manager_pc' = event_loop_on_error
    /\ pending' = NoRequest
    /\ UNCHANGED <<deadman_rx, handled, received, reported, exit_handled,
                   deadman_open>>
    /\ UNCHANGED mgrVars

\* event_loop, the listener's branch of the select: accept() is an Err.
SerAcceptFails ==
    /\ manager_pc = "select"
    /\ manager_pc' = event_loop_on_error
    /\ UNCHANGED <<pending, deadman_rx, handled, received, reported,
                   exit_handled, deadman_open>>
    /\ UNCHANGED mgrVars

(***************************************************************************)
(* The outfile sink                                                        *)
(***************************************************************************)
\* Base64::encode of a key: 44 characters for 32 bytes, the last one padding.
\* A key is known here by one symbol, which stands for its characters.
Base64_encode(key) ==
    [i \in 1..Base64_encoded_len(KEY_LENGTH) |->
        IF i = Base64_encoded_len(KEY_LENGTH) THEN "=" ELSE key]

NoFile == <<"ENOENT">>
NotRead == <<"not read">>

OutState(pc) ==
    /\ out_file = NoFile
    /\ out_pc = pc
    /\ out_key = <<>>
    /\ out_complete = <<>>
    /\ out_read = NotRead
    /\ out_sets = 0

\* OutfileOskHandler::new: nothing is written yet.
OutInit == OutState("ready")
OutIdle == OutState("idle")

\* File::create(path): the file exists and is empty, whatever it held.
File_create(file, new) == <<>>

\* set_osk_impl up to the encoding of the key: a fresh key, or the random key
\* of erase_stale_osk.
OutSetOsk ==
    /\ out_pc = "ready"
    /\ out_sets < MaxSets
    /\ \E key \in OskKeys \cup {RandomKey} :
        out_key' = Base64_encode(key)
    /\ out_sets' = out_sets + 1
    /\ out_pc' = "create"
    /\ UNCHANGED <<out_file, out_complete, out_read>>

\* File::create(path).expect(..): the open with truncation, or the panic.
OutCreate ==
    /\ out_pc = "create"
    /\ \E ok \in BOOLEAN :
        IF ok
        THEN /\ out_file' = File_create(out_file, out_key)
             /\ out_pc' = "write"
        ELSE /\ out_pc' = "panicked"
             /\ UNCHANGED out_file
    /\ UNCHANGED <<out_key, out_complete, out_read, out_sets>>

\* file.write_all(key.as_bytes()): one write(2), which takes some of the
\* bytes left, or fails; set_osk_impl returns when all are written.
OutWrite ==
    /\ out_pc = "write"
    /\ \E n \in 0..(Len(out_key) - Len(out_file)) :
        IF n = 0
        THEN /\ out_pc' = "panicked"
             /\ UNCHANGED <<out_file, out_complete>>
        ELSE /\ out_file' =
                    out_file \o SubSeq(out_key, Len(out_file) + 1,
                                       Len(out_file) + n)
             /\ IF Len(out_file) + n = Len(out_key)
                THEN out_pc' = "ready" /\ out_complete' = out_key
                ELSE UNCHANGED <<out_pc, out_complete>>
    /\ UNCHANGED <<out_key, out_read, out_sets>>

\* Another process reads the file at the path, in one piece.
OutRead ==
    /\ out_pc \notin {"idle"}
    /\ out_read' = out_file
    /\ out_read' # out_read
    /\ UNCHANGED <<out_file, out_pc, out_key, out_complete, out_sets>>

(***************************************************************************)
(* Server certificate verification of the QKD client                       *)
(***************************************************************************)
Ok_ServerCertVerified == [ok |-> TRUE, error |-> "none", cert_error |-> "none"]
InvalidCertificate(cert_error) ==
    [ok |-> FALSE, error |-> "InvalidCertificate", cert_error |-> cert_error]
OtherError(e) == [ok |-> FALSE, error |-> e, cert_error |-> "none"]
NoVerdict == [ok |-> FALSE, error |-> "not verified", cert_error |-> "none"]

\* rustls::CertificateError, and other rustls::Error values a verifier gives.
CertificateErrors ==
    {"NotValidForName", "NotValidForNameContext", "BadEncoding", "Expired",
     "NotValidYet", "Revoked", "UnknownIssuer", "BadSignature",
     "InvalidPurpose", "UnhandledCriticalExtension"}
WebPkiResults ==
    {Ok_ServerCertVerified} \cup {InvalidCertificate(e) : e \in CertificateErrors}
        \cup {OtherError("General"), OtherError("UnsupportedNameType")}

\* The arms of verify_server_cert that return Ok(ServerCertVerified::assertion()).
name_mismatch_mutant(cert_error) ==
    cert_error \in {"NotValidForName", "NotValidForNameContext",
                    "UnknownIssuer"}
name_mismatch(cert_error) ==
    cert_error \in {"NotValidForName", "NotValidForNameContext"}

\* NoServerNameVerification::verify_server_cert on the inner verifier's result.
verify_server_cert(inner) ==
    IF inner.ok THEN inner
    ELSE IF inner.error = "InvalidCertificate"
    THEN IF name_mismatch(inner.cert_error)
         THEN Ok_ServerCertVerified
         ELSE InvalidCertificate(inner.cert_error)
    ELSE inner

\* The verifier from_config leaves in the rustls ClientConfig.
configured_verifier(danger, inner) ==
    IF danger THEN verify_server_cert(inner) ELSE inner

TlsState(danger, pc) ==
    /\ tls_danger = danger
    /\ tls_pc = pc
    /\ tls_inner = NoVerdict
    /\ tls_result = NoVerdict
    /\ tls_handshakes = 0

TlsInit == \E danger \in BOOLEAN : TlsState(danger, "closed")
TlsIdle == TlsState(FALSE, "idle")

\* The device presents a certificate chain for the name the client asked.
TlsCertificate ==
    /\ tls_pc = "closed"
    /\ tls_handshakes < MaxHandshakes
    /\ tls_handshakes' = tls_handshakes + 1
    /\ \E verdict \in WebPkiResults : tls_inner' = verdict
    /\ tls_result' = NoVerdict
    /\ tls_pc' = "verify_server_cert"
    /\ UNCHANGED tls_danger

TlsVerifyCert ==
    /\ tls_pc = "verify_server_cert"
    /\ tls_result' = configured_verifier(tls_danger, tls_inner)
    /\ tls_pc' = IF tls_result'.ok THEN "verify_signature" ELSE "failed"
    /\ UNCHANGED <<tls_danger, tls_inner, tls_handshakes>>

\* verify_tls12_signature / verify_tls13_signature: the inner verifier's.
TlsVerifySignature ==
    /\ tls_pc = "verify_signature"
    /\ \E valid \in BOOLEAN :
        tls_pc' = IF valid THEN "established" ELSE "failed"
    /\ UNCHANGED <<tls_danger, tls_inner, tls_result, tls_handshakes>>

TlsClose ==
    /\ tls_pc \in {"established", "failed"}
    /\ tls_pc' = "closed"
    /\ UNCHANGED <<tls_danger, tls_inner, tls_result, tls_handshakes>>

(***************************************************************************)
(* The server role of a healthy connection, on the deadman's clock         *)
(***************************************************************************)
\* The longest a round of a healthy connection takes, in whole seconds: its
\* latency is below the margin start_deadman adds.
MaxHealthyLatency == ERASE_MARGIN - 1

CadState(pc) ==
    /\ role_pc = pc
    /\ role_clock = 0

\* The connection is not accepted yet; the deadman is started.
CadInit == CadState("connecting")
CadIdle == CadState("none")

\* The connection is accepted and its task enters the role's event_loop.
CadConnect ==
    /\ role_pc = "connecting"
    /\ role_pc' = "negotiate_key"
    /\ role_clock' = 0
    /\ UNCHANGED dmVars

\* event_loop: negotiate_key returned, set_fresh_osk reaches the deadman;
\* the role goes to sleep.
CadSetFreshOsk ==
    /\ role_pc = "negotiate_key"
    /\ DmSend
    /\ role_pc' = "sleep"
    /\ role_clock' = 0

\* event_loop: sleep(rekey_interval) is over, the next round begins.
CadWake ==
    /\ role_pc = "sleep"
    /\ role_clock >= rekey_interval(interval_secs)
    /\ role_pc' = "negotiate_key"
    /\ role_clock' = 0
    /\ UNCHANGED dmVars

\* One second passes for the role and for the worker.  A healthy round is
\* over before its latency reaches the margin; the sleep ends on time.
CadTick ==
    /\ role_pc = "negotiate_key" => role_clock < MaxHealthyLatency
    /\ role_pc = "sleep" => role_clock < rekey_interval(interval_secs)
    /\ Tick
    /\ role_clock' = role_clock + 1
    /\ UNCHANGED role_pc

(***************************************************************************)
(* The process: participant event loop and deadman worker thread           *)
(***************************************************************************)
\* No Cargo profile is part of the sources: the panic strategy is the
\* build's choice.
PanicStrategies == {"unwind", "abort"}

\* cfg.wireguard.interface and cfg.outfile: Some or None each.
Configs == [interface : {"None", "Some"}, outfile : {"None", "Some"}]
TargetOs == {"linux", "other"}

ProcState(p, strategy, pc, cfg, os) ==
    /\ participant = p
    /\ panic_strategy = strategy
    /\ config = cfg
    /\ target_os = os
    /\ sink_kind = "none"
    /\ process = "running"
    /\ deadman_thread = "not_started"
    /\ deadman_queued = 0
    /\ participant_pc = pc
    /\ negotiated = 0
    /\ failed_sends = 0
    /\ late_rounds = 0
    /\ connections = 0
    /\ retry_slept = 0

\* The process has loaded its configuration and is about to call
\* Daisyway::from_config.
ProcInit ==
    \E p \in {"Client", "Server"}, strategy \in PanicStrategies,
       cfg \in Configs, os \in TargetOs :
        ProcState(p, strategy, "from_config", cfg, os)

ProcIdle ==
    ProcState("none", "none", "idle",
              [interface |-> "None", outfile |-> "None"], "none")

\* The match of from_config on (wireguard.interface, outfile): the sink to
\* set up, or the bail!.
select_sink_mutant(cfg, os) ==
    IF cfg.outfile = "Some" THEN "outfile"
    ELSE IF cfg.interface = "None" THEN "Err"
    ELSE IF os = "linux" THEN "wireguard" ELSE "Err"
select_sink(cfg, os) ==
    IF cfg.interface = "None" /\ cfg.outfile = "None" THEN "Err"
    ELSE IF cfg.interface = "Some" /\ cfg.outfile = "Some" THEN "Err"
    ELSE IF cfg.interface = "None" THEN "outfile"
    ELSE IF os = "linux" THEN "wireguard" ELSE "Err"

\* Daisyway::from_config: the PSK, the peer ids and the QKD client may fail
\* to load before the sink is chosen; WireGuardOskHandler::setup may fail
\* before start_deadman is called.  On success the deadman thread runs and
\* main goes on to the participant's event loop.
FromConfig ==
    /\ process = "running"
    /\ participant_pc = "from_config"
    /\ \E loaded \in BOOLEAN, setup \in BOOLEAN :
        LET chosen == select_sink(config, target_os)
            ok == /\ loaded
                  /\ chosen # "Err"
                  /\ (chosen = "wireguard" => setup)
        IN  IF ok
            THEN /\ sink_kind' = chosen
                 /\ deadman_thread' = "running"
                 /\ participant_pc' = "connect"
                 /\ UNCHANGED process
            ELSE /\ participant_pc' = "config_error"
                 /\ process' = "exited"
                 /\ UNCHANGED <<sink_kind, deadman_thread>>
    /\ UNCHANGED <<participant, panic_strategy, deadman_queued, negotiated,
                   failed_sends, late_rounds, connections, retry_slept,
                   config, target_os>>

\* What the participant does with an Err of its protocol loop.
\* DaisywayTcpClient::event_loop logs it and sleeps before connecting again.
client_on_error_mutant == [pc |-> "returned", process |-> "exited"]
client_on_error == [pc |-> "retry", process |-> "running"]

\* tokio::time::sleep(Duration::from_secs(2)) of DaisywayTcpClient::event_loop
CLIENT_RETRY_SECS == 2

\* The worker thread's event_loop returned Err: thread_run drops the worker
\* (and with it the channel's receiver), then start's closure panics.  With
\* panic=abort the process ends; unwinding ends the thread only.
WorkerFails ==
    IF panic_strategy = "abort"
    THEN /\ process' = "exited"
         /\ UNCHANGED <<deadman_thread, deadman_queued>>
    ELSE /\ deadman_thread' = "panicked"
         /\ deadman_queued' = 0
         /\ UNCHANGED process

\* DeadmanWorker::event_loop: one update of the sink, for a request taken
\* from the channel or for an expired timer; the update may fail.
WorkerUpdate ==
    /\ process = "running"
    /\ deadman_thread = "running"
    /\ \E ok \in BOOLEAN :
        IF ok
        THEN /\ deadman_queued > 0
             /\ deadman_queued' = deadman_queued - 1
             /\ UNCHANGED <<process, deadman_thread>>
        ELSE WorkerFails
    /\ UNCHANGED <<participant, panic_strategy, participant_pc, negotiated,
                   failed_sends, late_rounds, connections, retry_slept,
                   config, target_os, sink_kind>>

\* TcpStream::connect of the client (may fail), or a connection accepted by
\* the server's manager.
Connect ==
    /\ process = "running"
    /\ participant_pc = "connect"
    /\ \E ok \in BOOLEAN :
        IF ok
        THEN /\ participant_pc' = "negotiate"
             /\ connections' = connections + 1
             /\ UNCHANGED process
        ELSE /\ participant = "Client"
             /\ participant_pc' = client_on_error.pc
             /\ process' = client_on_error.process
             /\ UNCHANGED connections
    /\ UNCHANGED <<participant, panic_strategy, deadman_thread,
                   deadman_queued, negotiated, failed_sends, late_rounds,
                   retry_slept,
                   config, target_os, sink_kind>>

\* One rekey round of the role's protocol loop: wait_for_key_negotiation of
\* the client, negotiate_key of the server.  An error ends the connection.
Negotiate ==
    /\ process = "running"
    /\ participant_pc = "negotiate"
    /\ \E ok \in BOOLEAN :
        IF ok
        THEN /\ negotiated < MaxNegotiated
             /\ negotiated' = negotiated + 1
             /\ late_rounds' = IF failed_sends > 0 THEN late_rounds + 1
                                                   ELSE late_rounds
             /\ participant_pc' = "set_fresh_osk"
             /\ UNCHANGED <<process, connections>>
        ELSE /\ participant_pc' = IF participant = "Client"
                                  THEN client_on_error.pc ELSE "connect"
             /\ process' = IF participant = "Client"
                           THEN client_on_error.process ELSE process
             /\ connections' = connections - 1
             /\ UNCHANGED <<negotiated, late_rounds>>
    /\ UNCHANGED <<participant, panic_strategy, deadman_thread,
                   deadman_queued, failed_sends, retry_slept,
                   config, target_os, sink_kind>>

\* set_fresh_osk of the round's key reaches OskDeadman::set_osk_impl: the
\* send succeeds while the worker holds the receiver.  Without it the Err
\* goes up: through the manager's event_loop to main in the server, to
\* DaisywayTcpClient::event_loop in the client.
SetFreshOsk ==
    /\ process = "running"
    /\ participant_pc = "set_fresh_osk"
    /\ IF deadman_thread = "running"
       THEN /\ deadman_queued < DEADMAN_CHANNEL_CAPACITY
            /\ deadman_queued' = deadman_queued + 1
            /\ participant_pc' = "negotiate"
            /\ UNCHANGED <<process, failed_sends, connections>>
       ELSE /\ failed_sends' = failed_sends + 1
            /\ participant_pc' = IF participant = "Client"
                                 THEN client_on_error.pc ELSE "returned"
            /\ process' = IF participant = "Client"
                          THEN client_on_error.process ELSE "exited"
            /\ connections' = connections - 1
            /\ UNCHANGED deadman_queued
    /\ UNCHANGED <<participant, panic_strategy, deadman_thread, negotiated,
                   late_rounds, retry_slept,
                   config, target_os, sink_kind>>

\* DaisywayTcpClient::event_loop: after the sleep, connect again.
ClientRetry ==
    /\ process = "running"
    /\ participant = "Client"
    /\ participant_pc = "retry"
    /\ participant_pc' = "connect"
    /\ retry_slept' = CLIENT_RETRY_SECS
    /\ UNCHANGED <<participant, panic_strategy, process, deadman_thread,
                   deadman_queued, negotiated, failed_sends, late_rounds,
                   connections, config, target_os, sink_kind>>

Init == MgrInit /\ DmIdle /\ KdfIdle /\ RndIdle /\ ProcIdle /\ SerIdle
    /\ OutIdle /\ TlsIdle /\ CadIdle
Next ==
    \/ Accept /\ UNCHANGED <<dmVars, kdfVars, rndVars, procVars, serVars,
                   outVars, tlsVars,
                   cadVars>>
    \/ HandleExit /\ UNCHANGED <<dmVars, kdfVars, rndVars, procVars, serVars,
                   outVars, tlsVars,
                   cadVars>>
    \/ HandleOsk /\ UNCHANGED <<dmVars, kdfVars, rndVars, procVars, serVars,
                   outVars, tlsVars,
                   cadVars>>
    \/ TaskOsk /\ UNCHANGED <<dmVars, kdfVars, rndVars, procVars, serVars,
                   outVars, tlsVars,
                   cadVars>>
    \/ TaskExit /\ UNCHANGED <<dmVars, kdfVars, rndVars, procVars, serVars,
                   outVars, tlsVars,
                   cadVars>>
    \/ TaskPanic /\ UNCHANGED <<dmVars, kdfVars, rndVars, procVars, serVars,
                   outVars, tlsVars,
                   cadVars>>
Spec == Init /\ [][Next]_vars

InitFlood == FloodInit /\ DmIdle /\ KdfIdle /\ RndIdle /\ ProcIdle /\ SerIdle
    /\ OutIdle /\ TlsIdle /\ CadIdle
SpecFlood == InitFlood /\ [][Next]_vars

MgrIdle == ManagerAfterAccepts(0)
DeadmanNext ==
    \/ DmSend /\ UNCHANGED <<mgrVars, kdfVars, rndVars, procVars, serVars,
                   outVars, tlsVars,
                   cadVars>>
    \/ DmDropHandles /\ UNCHANGED <<mgrVars, kdfVars, rndVars, procVars, serVars,
                   outVars, tlsVars,
                   cadVars>>
    \/ WorkerStart /\ UNCHANGED <<mgrVars, kdfVars, rndVars, procVars, serVars,
                   outVars, tlsVars,
                   cadVars>>
    \/ WorkerRequest /\ UNCHANGED <<mgrVars, kdfVars, rndVars, procVars, serVars,
                   outVars, tlsVars,
                   cadVars>>
    \/ WorkerTimeout /\ UNCHANGED <<mgrVars, kdfVars, rndVars, procVars, serVars,
                   outVars, tlsVars,
                   cadVars>>
    \/ WorkerShutdown /\ UNCHANGED <<mgrVars, kdfVars, rndVars, procVars, serVars,
                   outVars, tlsVars,
                   cadVars>>
    \/ Tick /\ UNCHANGED <<mgrVars, kdfVars, rndVars, procVars, serVars,
                   outVars, tlsVars,
                   cadVars>>
InitDeadman == MgrIdle /\ DmInit /\ KdfIdle /\ RndIdle /\ ProcIdle /\ SerIdle
    /\ OutIdle /\ TlsIdle /\ CadIdle
SpecDeadman == InitDeadman /\ [][DeadmanNext]_vars

KdfNext ==
    \/ DeriveLocal /\ UNCHANGED <<mgrVars, dmVars, rndVars, procVars, serVars,
                   outVars, tlsVars,
                   cadVars>>
    \/ DerivePeer /\ UNCHANGED <<mgrVars, dmVars, rndVars, procVars, serVars,
                   outVars, tlsVars,
                   cadVars>>
InitKdf == MgrIdle /\ DmIdle /\ KdfInit /\ RndIdle /\ ProcIdle /\ SerIdle
    /\ OutIdle /\ TlsIdle /\ CadIdle
SpecKdf == InitKdf /\ [][KdfNext]_vars

RoundNext ==
    \/ SrvFetch /\ UNCHANGED <<mgrVars, dmVars, kdfVars, procVars, serVars,
                   outVars, tlsVars,
                   cadVars>>
    \/ SrvWriteReq /\ UNCHANGED <<mgrVars, dmVars, kdfVars, procVars, serVars,
                   outVars, tlsVars,
                   cadVars>>
    \/ SrvReadAck /\ UNCHANGED <<mgrVars, dmVars, kdfVars, procVars, serVars,
                   outVars, tlsVars,
                   cadVars>>
    \/ SrvDeliver /\ UNCHANGED <<mgrVars, dmVars, kdfVars, procVars, serVars,
                   outVars, tlsVars,
                   cadVars>>
    \/ SrvSleep /\ UNCHANGED <<mgrVars, dmVars, kdfVars, procVars, serVars,
                   outVars, tlsVars,
                   cadVars>>
    \/ CliReadReq /\ UNCHANGED <<mgrVars, dmVars, kdfVars, procVars, serVars,
                   outVars, tlsVars,
                   cadVars>>
    \/ CliFetch /\ UNCHANGED <<mgrVars, dmVars, kdfVars, procVars, serVars,
                   outVars, tlsVars,
                   cadVars>>
    \/ CliWriteAck /\ UNCHANGED <<mgrVars, dmVars, kdfVars, procVars, serVars,
                   outVars, tlsVars,
                   cadVars>>
    \/ CliDeliver /\ UNCHANGED <<mgrVars, dmVars, kdfVars, procVars, serVars,
                   outVars, tlsVars,
                   cadVars>>
    \/ ForeignAck /\ UNCHANGED <<mgrVars, dmVars, kdfVars, procVars, serVars,
                   outVars, tlsVars,
                   cadVars>>
    \/ RemoteWrites /\ UNCHANGED <<mgrVars, dmVars, kdfVars, procVars, serVars,
                   outVars, tlsVars,
                   cadVars>>
    \/ RemoteGone /\ UNCHANGED <<mgrVars, dmVars, kdfVars, procVars, serVars,
                   outVars, tlsVars,
                   cadVars>>
InitRound == MgrIdle /\ DmIdle /\ KdfIdle /\ RndInit /\ ProcIdle /\ SerIdle
    /\ OutIdle /\ TlsIdle /\ CadIdle
SpecRound == InitRound /\ [][RoundNext]_vars

SerialNext ==
    \/ SerAccept /\ UNCHANGED <<dmVars, kdfVars, rndVars, procVars,
                   outVars, tlsVars,
                   cadVars>>
    \/ SerHandleExit /\ UNCHANGED <<dmVars, kdfVars, rndVars, procVars,
                   outVars, tlsVars,
                   cadVars>>
    \/ SerHandleOsk /\ UNCHANGED <<dmVars, kdfVars, rndVars, procVars,
                   outVars, tlsVars,
                   cadVars>>
    \/ SerSetOsk /\ UNCHANGED <<dmVars, kdfVars, rndVars, procVars,
                   outVars, tlsVars,
                   cadVars>>
    \/ SerWorkerRecv /\ UNCHANGED <<dmVars, kdfVars, rndVars, procVars,
                   outVars, tlsVars,
                   cadVars>>
    \/ SerTaskOsk /\ UNCHANGED <<dmVars, kdfVars, rndVars, procVars,
                   outVars, tlsVars,
                   cadVars>>
    \/ SerTaskExit /\ UNCHANGED <<dmVars, kdfVars, rndVars, procVars,
                   outVars, tlsVars,
                   cadVars>>
    \/ SerTaskPanic /\ UNCHANGED <<dmVars, kdfVars, rndVars, procVars,
                   outVars, tlsVars,
                   cadVars>>
InitSerial == MgrInit /\ DmIdle /\ KdfIdle /\ RndIdle /\ ProcIdle /\ SerInit
    /\ OutIdle /\ TlsIdle /\ CadIdle
SpecSerial == InitSerial /\ [][SerialNext]_vars

FailureNext ==
    \/ SerAccept /\ UNCHANGED <<dmVars, kdfVars, rndVars, procVars,
                   outVars, tlsVars,
                   cadVars>>
    \/ SerHandleExit /\ UNCHANGED <<dmVars, kdfVars, rndVars, procVars,
                   outVars, tlsVars,
                   cadVars>>
    \/ SerHandleOsk /\ UNCHANGED <<dmVars, kdfVars, rndVars, procVars,
                   outVars, tlsVars,
                   cadVars>>
    \/ SerSetOsk /\ UNCHANGED <<dmVars, kdfVars, rndVars, procVars,
                   outVars, tlsVars,
                   cadVars>>
    \/ SerWorkerRecv /\ UNCHANGED <<dmVars, kdfVars, rndVars, procVars,
                   outVars, tlsVars,
                   cadVars>>
    \/ SerTaskOsk /\ UNCHANGED <<dmVars, kdfVars, rndVars, procVars,
                   outVars, tlsVars,
                   cadVars>>
    \/ SerTaskExit /\ UNCHANGED <<dmVars, kdfVars, rndVars, procVars,
                   outVars, tlsVars,
                   cadVars>>
    \/ SerWorkerFails /\ UNCHANGED <<dmVars, kdfVars, rndVars, procVars,
                   outVars, tlsVars,
                   cadVars>>
    \/ SerSetOskFails /\ UNCHANGED <<dmVars, kdfVars, rndVars, procVars,
                   outVars, tlsVars,
                   cadVars>>
    \/ SerAcceptFails /\ UNCHANGED <<dmVars, kdfVars, rndVars, procVars,
                   outVars, tlsVars,
                   cadVars>>
SpecFailure == InitSerial /\ [][FailureNext]_vars

CadenceNext ==
    \/ WorkerStart /\ UNCHANGED cadVars
       /\ UNCHANGED <<mgrVars, kdfVars, rndVars, procVars, serVars,
                   outVars, tlsVars>>
    \/ WorkerRequest /\ UNCHANGED cadVars
       /\ UNCHANGED <<mgrVars, kdfVars, rndVars, procVars, serVars,
                   outVars, tlsVars>>
    \/ WorkerTimeout /\ UNCHANGED cadVars
       /\ UNCHANGED <<mgrVars, kdfVars, rndVars, procVars, serVars,
                   outVars, tlsVars>>
    \/ CadConnect /\ UNCHANGED <<mgrVars, kdfVars, rndVars, procVars, serVars,
                   outVars, tlsVars>>
    \/ CadSetFreshOsk /\ UNCHANGED <<mgrVars, kdfVars, rndVars, procVars, serVars,
                   outVars, tlsVars>>
    \/ CadWake /\ UNCHANGED <<mgrVars, kdfVars, rndVars, procVars, serVars,
                   outVars, tlsVars>>
    \/ CadTick /\ UNCHANGED <<mgrVars, kdfVars, rndVars, procVars, serVars,
                   outVars, tlsVars>>
InitCadence == MgrIdle /\ DmInit /\ KdfIdle /\ RndIdle /\ ProcIdle /\ SerIdle
    /\ OutIdle /\ TlsIdle /\ CadInit
SpecCadence == InitCadence /\ [][CadenceNext]_vars

OutfileNext ==
    \/ OutSetOsk /\ UNCHANGED <<mgrVars, dmVars, kdfVars, rndVars, procVars,
                                serVars, tlsVars,
                   cadVars>>
    \/ OutCreate /\ UNCHANGED <<mgrVars, dmVars, kdfVars, rndVars, procVars,
                                serVars, tlsVars,
                   cadVars>>
    \/ OutWrite /\ UNCHANGED <<mgrVars, dmVars, kdfVars, rndVars, procVars,
                               serVars, tlsVars,
                   cadVars>>
    \/ OutRead /\ UNCHANGED <<mgrVars, dmVars, kdfVars, rndVars, procVars,
                              serVars, tlsVars,
                   cadVars>>
InitOutfile == MgrIdle /\ DmIdle /\ KdfIdle /\ RndIdle /\ ProcIdle /\ SerIdle
    /\ OutInit /\ TlsIdle /\ CadIdle
SpecOutfile == InitOutfile /\ [][OutfileNext]_vars

TlsNext ==
    \/ TlsCertificate /\ UNCHANGED <<mgrVars, dmVars, kdfVars, rndVars,
                                     procVars, serVars, outVars,
                   cadVars>>
    \/ TlsVerifyCert /\ UNCHANGED <<mgrVars, dmVars, kdfVars, rndVars,
                                    procVars, serVars, outVars,
                   cadVars>>
    \/ TlsVerifySignature /\ UNCHANGED <<mgrVars, dmVars, kdfVars, rndVars,
                                         procVars, serVars, outVars,
                   cadVars>>
    \/ TlsClose /\ UNCHANGED <<mgrVars, dmVars, kdfVars, rndVars, procVars,
                               serVars, outVars,
                   cadVars>>
InitTls == MgrIdle /\ DmIdle /\ KdfIdle /\ RndIdle /\ ProcIdle /\ SerIdle
    /\ OutIdle /\ TlsInit /\ CadIdle
SpecTls == InitTls /\ [][TlsNext]_vars

ProcessNext ==
    \/ FromConfig /\ UNCHANGED <<mgrVars, dmVars, kdfVars, rndVars, serVars,
                   outVars, tlsVars,
                   cadVars>>
    \/ WorkerUpdate /\ UNCHANGED <<mgrVars, dmVars, kdfVars, rndVars, serVars,
                   outVars, tlsVars,
                   cadVars>>
    \/ Connect /\ UNCHANGED <<mgrVars, dmVars, kdfVars, rndVars, serVars,
                   outVars, tlsVars,
                   cadVars>>
    \/ Negotiate /\ UNCHANGED <<mgrVars, dmVars, kdfVars, rndVars, serVars,
                   outVars, tlsVars,
                   cadVars>>
    \/ SetFreshOsk /\ UNCHANGED <<mgrVars, dmVars, kdfVars, rndVars, serVars,
                   outVars, tlsVars,
                   cadVars>>
    \/ ClientRetry /\ UNCHANGED <<mgrVars, dmVars, kdfVars, rndVars, serVars,
                   outVars, tlsVars,
                   cadVars>>
InitProcess == MgrIdle /\ DmIdle /\ KdfIdle /\ RndIdle /\ ProcInit /\ SerIdle
    /\ OutIdle /\ TlsIdle /\ CadIdle
SpecProcess == InitProcess /\ [][ProcessNext]_vars

(***************************************************************************)
(* Claims about the connection manager                                     *)
(***************************************************************************)
Forwarded == outcome \in {"forwarded_active", "promoted"}

\* C1: once the manager has forwarded an OSK that came from connection ci, it
\* never afterwards forwards one that came from a connection cj < ci: the
\* connection of the latest forward is the largest one ever forwarded from.
C1_Supersession == last_forward.cid = max_forwarded

\* C1 witness: an OSK of a superseded connection was discarded after an OSK of
\* a later connection had been forwarded.
C1_Witness ==
    /\ outcome = "discarded_stale"
    /\ max_forwarded > 0
    /\ Len(promoted) >= 1

\* C2: there is at most one active connection, and whenever the manager
\* forwards an OSK, it comes from the connection that is active at that
\* moment, which is the one promoted most recently.
C2_OnlyActiveHonored ==
    /\ Cardinality(active_connection) <= 1
    /\ Forwarded =>
          /\ active_connection = {last_forward.cid}
          /\ promoted # <<>>
          /\ promoted[Len(promoted)] = last_forward.cid

\* C2 witness: a second connection was promoted and its OSK forwarded.
C2_Witness ==
    /\ outcome = "promoted"
    /\ Len(promoted) >= 2
    /\ active_connection = {last_forward.cid}

\* C10: budding_connections never holds more than MAX_BUDDING_CONNECTIONS
\* entries, whatever Accept, Exit and Osk events are handled.
C10_ManagerBound == Cardinality(budding_connections) <= MAX_BUDDING_CONNECTIONS

\* C10 witness: an Accept arrived at a full map, pruned it and left it full.
C10_Witness ==
    /\ outcome = "accepted_pruned"
    /\ Cardinality(budding_connections) = MAX_BUDDING_CONNECTIONS

\* C11: an Accept that finds MAX_BUDDING_CONNECTIONS budding connections
\* evicts exactly one of them, the one with the smallest id, whose handle is
\* dropped (its task is asked to abort unless it has finished already); the
\* others and the connection just accepted remain.  An Accept that finds
\* fewer evicts nothing and aborts nothing.
C11_AcceptStep ==
    LET evicted == budding_connections \ budding_connections' IN
    /\ next_connection_id \in budding_connections'
    /\ IF Cardinality(budding_connections) = MAX_BUDDING_CONNECTIONS
       THEN /\ Cardinality(evicted) = 1
            /\ \A e \in evicted :
                /\ \A b \in budding_connections : e <= b
                /\ e \in aborted' \cup finished
                /\ aborted' \subseteq aborted \cup {e}
            /\ budding_connections' =
                   (budding_connections \ evicted) \cup {next_connection_id}
            /\ Cardinality(budding_connections') = MAX_BUDDING_CONNECTIONS
       ELSE /\ evicted = {}
            /\ budding_connections' =
                   budding_connections \cup {next_connection_id}
            /\ aborted' = aborted
C11_BuddingEviction ==
    [][next_connection_id' # next_connection_id => C11_AcceptStep]_vars
\* The Accept after 2000 connections were budding: connection 0 is gone and
\* aborted, the newest one is there.
C11_Witness ==
    /\ outcome = "accepted_pruned"
    /\ Cardinality(budding_connections) = MAX_BUDDING_CONNECTIONS
    /\ 0 \notin budding_connections
    /\ 0 \in aborted
    /\ (next_connection_id - 1) \in budding_connections

\* C12: when the manager handles an Osk event of a budding connection cid
\* that is above the active id, or with no connection active, then cid leaves
\* the budding connections and is the active connection, the budding
\* connections below cid are dropped and their handles with them, those
\* above cid are kept and not aborted, the handle of the connection that was
\* active is dropped, and the event's (key, reason) is what goes to the sink.
C12_PromotionStep ==
    LET ev == Head(manager_notification)
        cid == ev.connection_id
        below == {b \in budding_connections : b < cid}
        above == {b \in budding_connections : b > cid}
    IN  /\ active_connection' = {cid}
        /\ budding_connections' = above
        /\ (below \cup active_connection) \subseteq (aborted' \cup finished)
        /\ aborted' \subseteq aborted \cup below \cup active_connection
        /\ last_forward' = [cid |-> cid, key |-> ev.key, reason |-> ev.reason]
C12_IsPromotion ==
    /\ manager_notification # <<>>
    /\ manager_notification' = Tail(manager_notification)
    /\ Head(manager_notification).kind = "Osk"
    /\ Head(manager_notification).connection_id \in budding_connections
    /\ \A a \in active_connection :
           Head(manager_notification).connection_id > a
C17_Ids ==
    /\ \A i, j \in 1..Len(promoted) : i < j => promoted[i] < promoted[j]
    /\ \A a \in active_connection :
           /\ promoted # <<>>
           /\ a = promoted[Len(promoted)]
           /\ \A i \in 1..Len(promoted) : promoted[i] <= a
    /\ \A c \in budding_connections \cup active_connection :
           0 <= c /\ c < next_connection_id
C17_AllocateStep ==
    /\ next_connection_id' = next_connection_id + 1
    /\ budding_connections' \ budding_connections = {next_connection_id}
    /\ next_connection_id \notin active_connection
C17_IdsIncrease ==
    /\ next_connection_id = 0
    /\ []C17_Ids
    /\ [][next_connection_id' # next_connection_id => C17_AllocateStep]_vars
\* Three connections accepted, two of them promoted one after the other.
C17_Witness ==
    /\ next_connection_id = 3
    /\ Len(promoted) = 2
    /\ active_connection = {promoted[2]}
    /\ promoted[1] < promoted[2]

\* A step of the manager that takes an event off its channel.
ManagerTakes(kind) ==
    /\ manager_notification # <<>>
    /\ manager_notification' = Tail(manager_notification)
    /\ Head(manager_notification).kind = kind

\* C21: handling Exit(cid): if cid is the active id the active connection is
\* cleared and the budding ones are unchanged; else if cid is budding, that
\* entry alone is removed and the active connection is unchanged; otherwise
\* neither changes and the handler returns Ok after its warning.  Nothing is
\* forwarded to the sink and no id is handed out in any of the three.
C21_ExitStep ==
    LET cid == Head(manager_notification).connection_id IN
    /\ last_forward' = last_forward
    /\ max_forwarded' = max_forwarded
    /\ promoted' = promoted
    /\ next_connection_id' = next_connection_id
    /\ IF {cid} = active_connection
       THEN /\ active_connection' = {}
            /\ budding_connections' = budding_connections
            /\ outcome' = "active_exited"
       ELSE IF cid \in budding_connections
       THEN /\ budding_connections' = budding_connections \ {cid}
            /\ active_connection' = active_connection
            /\ outcome' = "budding_exited"
       ELSE /\ active_connection' = active_connection
            /\ budding_connections' = budding_connections
            /\ aborted' = aborted
            /\ outcome' = "exit_unknown"
C21_ExitHandling == [][ManagerTakes("Exit") => C21_ExitStep]_vars
\* The Exit of a connection that is neither active nor budding was handled
\* while another connection was active and a third was budding.
C21_Witness ==
    /\ outcome = "exit_unknown"
    /\ active_connection # {}
    /\ budding_connections # {}

\* C22: an Osk event of a connection above the active id (or with none
\* active) that is not among the budding connections is dropped: nothing goes
\* to the sink, the active and the budding connections stay as they are, no
\* handle is dropped, and the handler returns Ok.
C22_IsAbsent ==
    /\ ManagerTakes("Osk")
    /\ Head(manager_notification).connection_id \notin budding_connections
    /\ \A a \in active_connection :
           Head(manager_notification).connection_id > a
C22_DropStep ==
    /\ last_forward' = last_forward
    /\ max_forwarded' = max_forwarded
    /\ promoted' = promoted
    /\ active_connection' = active_connection
    /\ budding_connections' = budding_connections
    /\ aborted' = aborted
    /\ next_connection_id' = next_connection_id
    /\ outcome' = "ignored_unknown"
C22_AbsentOskDropped == [][C22_IsAbsent => C22_DropStep]_vars
\* An OSK of a connection that had been superseded was dropped after the
\* superseding connection had exited, with something forwarded before.
C22_Witness ==
    /\ outcome = "ignored_unknown"
    /\ active_connection = {}
    /\ promoted # <<>>
    /\ last_forward.cid = promoted[Len(promoted)]

\* C30: in every state of the manager, the budding connections are all above
\* the active one (which is not among them), and every tracked id is below
\* the next id to hand out.
C30_ManagerInvariant ==
    /\ \A a \in active_connection :
           /\ a \notin budding_connections
           /\ \A b \in budding_connections : b > a
    /\ \A c \in active_connection \cup budding_connections :
           c < next_connection_id
\* Connection 1 is active after connection 0 was, with connection 2 budding
\* above it.
C30_Witness ==
    /\ active_connection = {1}
    /\ budding_connections = {2}
    /\ promoted = <<0, 1>>

\* The requests the deadman has yet to take, in the order they will arrive.
OnTheWay ==
    deadman_rx \o (IF manager_pc = "set_osk" THEN <<pending>> ELSE <<>>)

\* C23: an Osk event of the active connection makes the manager call set_osk
\* once, with the event's key and reason, and that request reaches the
\* deadman's channel once; the active connection, the budding connections and
\* the counter stay as they are.  An Osk event of a connection below the
\* active one makes no call and changes none of these.
C23_Lifecycle ==
    conn_lifecycle(Head(manager_notification).connection_id,
                   active_connection)
C23_OskStep ==
    LET ev == Head(manager_notification) IN
    /\ C23_Lifecycle \in {"Equal", "Less"} =>
           /\ active_connection' = active_connection
           /\ budding_connections' = budding_connections
           /\ next_connection_id' = next_connection_id
           /\ aborted' = aborted
    /\ C23_Lifecycle = "Equal" =>
           /\ handled' = Append(handled, [key |-> ev.key, reason |-> ev.reason])
           /\ pending' = [key |-> ev.key, reason |-> ev.reason]
           /\ manager_pc' = "set_osk"
    /\ C23_Lifecycle = "Less" =>
           /\ handled' = handled
           /\ pending' = NoRequest
           /\ manager_pc' = "select"
           /\ deadman_rx' = deadman_rx
C23_ActiveAndStaleOsk ==
    /\ [][ManagerTakes("Osk") => C23_OskStep]_vars
    /\ [][manager_pc = "set_osk" /\ manager_pc' = "select" =>
            deadman_rx' = Append(deadman_rx, pending) /\ handled' = handled]_vars
    /\ [](received + Len(OnTheWay) = Len(handled))
\* The active connection has had a second OSK forwarded, and after it an OSK
\* of a superseded connection was discarded.
C23_Witness ==
    /\ outcome = "discarded_stale"
    /\ Len(handled) >= 2
    /\ Len(promoted) = 1
    /\ received = Len(handled)

\* C24: the manager handles one event at a time: while a forward to the
\* deadman is pending it takes no event and accepts no connection, so its
\* state does not move; and the requests reach the deadman in the order in
\* which the manager handled their Osk events, each once.
C24_SerialStep ==
    manager_pc = "set_osk" =>
        /\ active_connection' = active_connection
        /\ budding_connections' = budding_connections
        /\ next_connection_id' = next_connection_id
        /\ aborted' = aborted
        /\ promoted' = promoted
        /\ last_forward' = last_forward
        /\ outcome' = outcome
        /\ Len(manager_notification') >= Len(manager_notification)
C24_SerialProcessing ==
    /\ [][C24_SerialStep]_vars
    /\ [](received <= Len(handled))
    /\ [](OnTheWay = SubSeq(handled, received + 1, Len(handled)))
    /\ [][received' # received =>
            Head(deadman_rx) = handled[received + 1]]_vars
\* A forward is pending behind a full deadman channel while an Exit and an
\* Osk event wait in the manager's channel.
C24_Witness ==
    /\ manager_pc = "set_osk"
    /\ Len(deadman_rx) = MaxRequests
    /\ Len(manager_notification) = 2
    /\ Head(manager_notification).kind = "Exit"
    /\ pending.key # deadman_rx[1].key

\* C20, as stated: a connection whose task is over and whose handle the
\* manager has not dropped has enqueued Exit(cid), which is in the channel
\* or has been handled: the manager tracks no such connection without its
\* Exit on the way.
C20_AsStated ==
    \A c \in finished \ aborted :
        \/ c \notin active_connection \cup budding_connections
        \/ \E i \in 1..Len(manager_notification) :
               manager_notification[i] = ExitEvent(c)

C4_StartupErase ==
    /\ worker = "spawned" => sink = Preexisting
    /\ worker \in {"waiting", "exited"} => first_update = Stale

\* C4 witness: the worker has just erased at startup while requests enqueued
\* before it ran are waiting in the channel.
C4_Witness ==
    /\ sink.cause = "startup"
    /\ first_update = Stale
    /\ early_requests >= 1
    /\ Len(requests) >= 1

C6_RefreshKeepsFresh ==
    sink.cause = "timeout" => sink.idle >= erase_after

\* C6 witness: a Fresh update replaced a Fresh update after some time, with no
\* Stale update between them.
C6_Witness ==
    /\ sink.cause = "request"
    /\ sink.reason = Fresh
    /\ sink.prev = Fresh
    /\ sink.spaced

\* C15: the worker exits only when every OskDeadman handle is dropped and
\* the channel is drained; it then invokes erase_stale_osk exactly once, and
\* the sink observes nothing after that: its last update is that Stale one.
C15_ShutdownStep ==
    /\ closed
    /\ requests = <<>>
    /\ sink' = erase_stale_osk(sink, "shutdown", since_arrival)
C7_RoundAgreement ==
    \A r \in 1..Min(Len(srv_delivered), Len(cli_delivered)) :
        client_qkd[srv_fetched[r].id] = srv_fetched[r].key
            => srv_delivered[r] = cli_delivered[r]
\* Both roles delivered the first round's key, for a key id whose two byte
\* orders differ and for peer ids that the connection id has to reorder at
\* the server.
C7_Witness ==
    /\ Len(srv_delivered) >= 1
    /\ Len(cli_delivered) >= 1
    /\ srv_delivered[1] = cli_delivered[1]
    /\ srv_fetched[1].id = UuidA
    /\ ~LexLeq(server_params.local_peer_id, server_params.remote_peer_id)

\* C8: derive_daisyway_key gives the same key when local_peer_id and
\* remote_peer_id are exchanged, the other inputs being equal (equal peer ids
\* included): the connection id that goes in is the two peer ids in the order
\* of their raw bytes, whichever is local.
C8_KdfSymmetry ==
    /\ (kdf_osk.local # <<>> /\ kdf_osk.peer # <<>>)
            => kdf_osk.local = kdf_osk.peer
    /\ kdf_conn_id # <<>> =>
        /\ LexLeq(kdf_conn_id[1].first_peer, kdf_conn_id[1].second_peer)
        /\ {kdf_conn_id[1].first_peer, kdf_conn_id[1].second_peer}
            = {kdf_params.local_peer_id, kdf_params.remote_peer_id}
\* Both ends derived, the local peer id sorting after the remote one although
\* the two start with the same byte.
C8_Witness ==
    /\ kdf_osk.local # <<>>
    /\ kdf_osk.peer # <<>>
    /\ kdf_params.local_peer_id # kdf_params.remote_peer_id
    /\ kdf_params.local_peer_id[1] = kdf_params.remote_peer_id[1]
    /\ ~LexLeq(kdf_params.local_peer_id, kdf_params.remote_peer_id)

\* C9: when what the server role reads as acknowledgement is not the byte
\* 0x01 (another byte, or a read that fails for want of a byte), the round
\* ends in an error, no OSK is delivered for it, and the protocol loop has
\* ended: that round stays the last one started.
C9_AckValidation ==
    \A r \in 1..srv_round :
        srv_acks[r] \notin {Pending, ReadByte(REKEY_ACK)} =>
            /\ srv.pc = "failed"
            /\ r = srv_round
            /\ Len(srv_delivered) = r - 1
\* The second round's acknowledgement arrived as 0x00 after a first round
\* that went through.
C9_Witness ==
    /\ srv_round = 2
    /\ srv_acks[2] = ReadByte(0)
    /\ srv.pc = "failed"
    /\ Len(srv_delivered) = 1

\* C13: a RekeyReq is 48 octets on the stream, a RekeyAck is 1 octet, and the
\* KdfInput that derive_daisyway_key absorbs (psk, nonce, qkd_key,
\* qkd_key_id, wireguard_connection_id, packed) is 176 octets.
AbsorbedKdfInput(osk) == osk.shake256[2]
C13_Sizes(kdf_input_len) ==
    /\ srv.osk # <<>> => Len(AbsorbedKdfInput(srv.osk[1])) = kdf_input_len
    /\ cli.osk # <<>> => Len(AbsorbedKdfInput(cli.osk[1])) = kdf_input_len
    /\ Len(s2c) % 48 = 0
    /\ (srv_round = 1 /\ srv.pc = "read_ack" /\ cli.pc = "read_req"
            /\ cli_delivered = <<>>) => Len(s2c) = 48
    /\ cli.pc \in {"fetch", "write_ack", "deliver"}
           => Len(RekeyReq_as_bytes(cli.req)) = 48
    /\ Len(RekeyAck_as_bytes(RekeyAck(REKEY_ACK))) = 1
C13_WireSizes == C13_Sizes(176)
\* C13 as stated: the KdfInput is 144 octets.
C13_AsStated == C13_Sizes(144)
\* The server role derived a key, the client role has its request and its
\* acknowledgement is on the stream.
C13_Witness ==
    /\ srv.osk # <<>>
    /\ Len(AbsorbedKdfInput(srv.osk[1])) = 176
    /\ cli.pc = "deliver"
    /\ Len(RekeyReq_as_bytes(cli.req)) = 48

\* C16, as stated: the server role has an OSK for a round (its
\* acknowledgement was read and found valid) only if the remote end has
\* completed fetch_specific_key for that round's key id.
C16_AsStated ==
    \A r \in 1..srv_round :
        srv_acks[r] = ReadByte(REKEY_ACK) =>
            /\ Len(cli_fetched) >= r
            /\ cli_fetched[r].id = srv_fetched[r].id

\* C18: on one connection the server role reads an acknowledgement only for
\* a request it has written, writes a request only when every earlier one
\* was acknowledged with a valid byte and its OSK delivered, sleeps only
\* after it has read the valid acknowledgement of the round and delivered
\* the round's OSK, and does not sleep before its first round.
AcksRead == Cardinality({r \in 1..srv_round : srv_acks[r] # Pending})
AcksValid ==
    Cardinality({r \in 1..srv_round : srv_acks[r] = ReadByte(REKEY_ACK)})
C18_ServerOrdering ==
    /\ AcksRead <= srv_written
    /\ srv_written <= AcksValid + 1
    /\ srv_written <= Len(srv_delivered) + 1
    /\ srv_written <= srv_round
    /\ srv.pc = "sleep" =>
        /\ srv_round >= 1
        /\ srv_acks[srv_round] = ReadByte(REKEY_ACK)
        /\ Len(srv_delivered) = srv_round
    /\ srv_round = 0 => srv.pc = "fetch"
\* The server role sleeps after its second round.
C18_Witness ==
    /\ srv.pc = "sleep"
    /\ srv_round = 2
    /\ srv_written = 2
    /\ Len(srv_delivered) = 2

\* C19: in each round the client role has the whole 48-byte RekeyReq before
\* it fetches, fetches the key of the id in the request before it writes its
\* acknowledgement, and writes the acknowledgement before it delivers; once
\* it failed it writes no acknowledgement, delivers nothing and stays failed.
C19_Order ==
    /\ cli_acked <= Len(cli_fetched)
    /\ Len(cli_delivered) <= cli_acked
    /\ Len(cli_fetched) <= Len(cli_delivered) + 1
    /\ cli.pc \in {"fetch", "write_ack", "deliver"}
           => Len(RekeyReq_as_bytes(cli.req)) = 48
    /\ cli.pc = "write_ack" =>
        /\ Len(cli_fetched) = cli_acked + 1
        /\ cli_fetched[Len(cli_fetched)].id
               = Uuid_from_bytes(cli.req.qkd_key_id)
    /\ cli.pc = "deliver" =>
        /\ cli_acked = Len(cli_delivered) + 1
        /\ Len(cli_fetched) = cli_acked
    /\ cli.pc = "failed" => cli_acked = Len(cli_delivered)
C19_ClientOrdering ==
    /\ []C19_Order
    /\ [][cli.pc = "failed" =>
            /\ cli' = cli
            /\ cli_acked' = cli_acked
            /\ cli_delivered' = cli_delivered]_vars
\* The client role failed in its second round, with the request read and
\* no key fetched for it: one round fetched, acknowledged and delivered.
C19_Witness ==
    /\ cli.pc = "failed"
    /\ srv_round = 2
    /\ cli.req.qkd_key_id = Uuid_as_bytes(srv_fetched[2].id)
    /\ Len(cli_fetched) = 1
    /\ cli_acked = 1
    /\ Len(cli_delivered) = 1

\* C26, as stated: the qkd_key_id the server role writes in a RekeyReq is
\* the little-endian byte order of the round's key id, the representation
\* that goes into KdfInput.
C26_AsStated ==
    (srv.pc = "read_ack" /\ Len(s2c) >= RekeyReq_LEN) =>
        SubSeq(s2c, Len(s2c) - RekeyReq_LEN + 1,
               Len(s2c) - RekeyReq_LEN + UUID_LENGTH)
            = Uuid_to_bytes_le(srv.key.id)

\* C14, as stated: a failure of the deadman worker ends the process, in
\* either role: the participant completes no rekey round after a
\* set_fresh_osk of its own has failed for want of the worker.
C14_AsStated == late_rounds = 0

\* C25: the client driver's loop never returns; whatever fails (the connect,
\* a round, the delivery of a round's key), the driver drops the connection,
\* sleeps 2 seconds and connects again; it never holds more than one
\* connection with its protocol instance.
C25_NormalSuccessor ==
    [connect |-> "negotiate", negotiate |-> "set_fresh_osk",
     set_fresh_osk |-> "negotiate", retry |-> "connect"]
C25_DriverStep ==
    (/\ participant = "Client"
     /\ participant_pc \in DOMAIN C25_NormalSuccessor
     /\ participant_pc' # participant_pc) =>
        /\ participant_pc' # C25_NormalSuccessor[participant_pc] =>
               /\ participant_pc' = "retry"
               /\ connections' = 0
               /\ process' = process
        /\ participant_pc = "retry" =>
               /\ participant_pc' = "connect"
               /\ retry_slept' = 2
               /\ connections' = 0
        /\ participant_pc' = "negotiate" /\ participant_pc = "connect" =>
               connections = 0 /\ connections' = 1
C25_ClientRetry ==
    /\ []((/\ participant = "Client"
            /\ participant_pc \notin {"from_config", "config_error"}) =>
            /\ participant_pc \in DOMAIN C25_NormalSuccessor
            /\ connections \in {0, 1}
            /\ retry_slept \in {0, 2}
            /\ (process = "exited" => panic_strategy = "abort"))
    /\ [][C25_DriverStep]_vars
\* The client is in a round on a new connection after it slept, having had
\* a delivery fail before.
C25_Witness ==
    /\ participant = "Client"
    /\ participant_pc = "negotiate"
    /\ connections = 1
    /\ retry_slept = 2
    /\ failed_sends >= 1

\* C27: from_config gets past the choice of the sink only with exactly one
\* of wireguard.interface and the outfile configured; with both or with
\* neither it returns an error, and then no deadman thread was started and
\* the participant never connects, accepts or negotiates.
C27_ExactlyOne ==
    (config.interface = "Some") # (config.outfile = "Some")
C27_SinkSelection ==
    /\ (sink_kind # "none" \/ deadman_thread # "not_started"
            \/ participant_pc \notin {"from_config", "config_error"})
           => C27_ExactlyOne
    /\ (~C27_ExactlyOne /\ participant_pc # "from_config") =>
           /\ participant_pc = "config_error"
           /\ process = "exited"
           /\ sink_kind = "none"
           /\ deadman_thread = "not_started"
           /\ deadman_queued = 0
           /\ connections = 0
           /\ negotiated = 0
    /\ sink_kind = "outfile" =>
           config = [interface |-> "None", outfile |-> "Some"]
    /\ sink_kind = "wireguard" =>
           config = [interface |-> "Some", outfile |-> "None"]
\* from_config has returned its error for a configuration with both sinks.
C27_Witness ==
    /\ config = [interface |-> "Some", outfile |-> "Some"]
    /\ participant_pc = "config_error"
    /\ process = "exited"
\* A participant runs with the outfile sink chosen.
C27_WitnessChosen ==
    /\ sink_kind = "outfile"
    /\ negotiated > 0

\* C28, as stated: whoever reads the outfile's path while set_osk runs reads
\* a complete key, the previous one or the new one, never an empty or a
\* partial file.
C28_AsStated ==
    out_read \in {NotRead, NoFile}
        \/ Len(out_read) = Base64_encoded_len(KEY_LENGTH)

\* C29: with danger_allow_insecure_no_server_name_certificates set, the
\* verification of the server certificate succeeds exactly when the WebPKI
\* verifier succeeds or fails with NotValidForName / NotValidForNameContext;
\* any other failure is returned as it was.
C29_NameMismatchOnly ==
    (tls_danger /\ tls_result # NoVerdict) =>
        /\ tls_result.ok <=>
               \/ tls_inner.ok
               \/ /\ tls_inner.error = "InvalidCertificate"
                  /\ tls_inner.cert_error \in
                         {"NotValidForName", "NotValidForNameContext"}
        /\ tls_result.ok => tls_result = Ok_ServerCertVerified
        /\ ~tls_result.ok =>
               /\ tls_result = tls_inner
               /\ tls_pc \in {"failed", "closed"}
\* The second handshake went through on a certificate that is not valid for
\* the name.
C29_Witness ==
    /\ tls_danger
    /\ tls_pc = "established"
    /\ tls_inner = InvalidCertificate("NotValidForNameContext")
    /\ tls_result.ok
    /\ tls_handshakes = 2

\* What the root domain of a derived key absorbed after the zero key.
AbsorbedProtocolDomain(osk) == osk.shake256[1].shake256[1].shake256[2]
C39_Domain(len) ==
    \A osk \in {kdf_osk.local[i] : i \in 1..Len(kdf_osk.local)}
            \cup {kdf_osk.peer[i] : i \in 1..Len(kdf_osk.peer)} :
        /\ AbsorbedProtocolDomain(osk) =
            "Daisyway v1 by Paul Spooren & Karolin Varner, Feb-2025 with Shake256"
        /\ Len(AbsorbedProtocolDomain(osk)) = len
        /\ osk.shake256[1].shake256[1].shake256[1] = Rep(0, KEY_LENGTH)
        /\ osk.shake256[1].shake256[2] = "derive key"
\* C39: the root domain of every derived key mixes, into the zero domain,
\* exactly the ASCII string "Daisyway v1 by Paul Spooren & Karolin Varner,
\* Feb-2025 with Shake256", nothing after it; the string is 68 bytes long.
C39_ProtocolDomain == C39_Domain(68)
\* C39 as stated: the same, with a length of 66 bytes.
C39_AsStated == C39_Domain(66)
\* Both ends have derived a key.
C39_Witness ==
    /\ kdf_osk.local # <<>>
    /\ kdf_osk.peer # <<>>
    /\ kdf_params.psk = Rep(0, KEY_LENGTH)

\* C31: whatever the order of Accept, Exit and Osk events, the last OSK the
\* manager forwarded comes from the connection promoted last, which is above
\* every connection promoted before it, and no budding connection is at or
\* below a connection that was ever promoted; this holds also once the active
\* connection has exited and every Osk is a candidate for promotion.  So no
\* OSK of a connection below one promoted earlier is ever forwarded.
C31_Supersession ==
    /\ (last_forward = NoForward) <=> (promoted = <<>>)
    /\ promoted # <<>> =>
           /\ last_forward.cid = promoted[Len(promoted)]
           /\ max_forwarded = last_forward.cid
           /\ \A i \in 1..Len(promoted) : promoted[i] <= last_forward.cid
    /\ \A b \in budding_connections :
           \A i \in 1..Len(promoted) : b > promoted[i]
\* Connection 1 was promoted and then exited; with no connection active, an
\* OSK reported by connection 0, which connection 1 had superseded, was
\* handled and not forwarded.
C31_Witness ==
    /\ outcome = "ignored_unknown"
    /\ active_connection = {}
    /\ promoted = <<1>>
    /\ last_forward.cid = 1
    /\ 0 \in aborted
    /\ 1 \in finished

\* C32: an Accept and an Exit never cause a sink update.  Handling an Accept
\* leaves the active connection as it is; handling an Exit takes the exiting
\* connection out of active_connection if it is the active one and does
\* nothing else to it; neither calls set_osk, so nothing is sent to the
\* deadman and the last forwarded key is the last request made of the deadman
\* until the next promotion, the only forward there can be with no connection
\* active.
C32_AcceptStep ==
    /\ active_connection' = active_connection
    /\ last_forward' = last_forward
    /\ promoted' = promoted
    /\ UNCHANGED serVars
C32_ExitStep ==
    /\ active_connection' =
           active_connection \ {Head(manager_notification).connection_id}
    /\ last_forward' = last_forward
    /\ promoted' = promoted
    /\ UNCHANGED <<manager_pc, pending, deadman_rx, handled, received>>
C32_NoSinkUpdate ==
    /\ [][next_connection_id' # next_connection_id => C32_AcceptStep]_vars
    /\ [][ManagerTakes("Exit") => C32_ExitStep]_vars
    /\ [][handled' # handled =>
            /\ ManagerTakes("Osk")
            /\ active_connection = {} => outcome' = "promoted"]_vars
    /\ [](handled # <<>> =>
            handled[Len(handled)] =
                [key |-> last_forward.key, reason |-> last_forward.reason])
\* The active connection has exited after its key reached the deadman, and a
\* connection was accepted afterwards: the key is still the last one sent.
C32_Witness ==
    /\ active_connection = {}
    /\ promoted = <<0>>
    /\ 0 \in finished
    /\ outcome = "accepted"
    /\ received = 1
    /\ Len(handled) = 1
    /\ handled[1].key = last_forward.key
    /\ manager_pc = "select"

\* C33: every request made of the deadman, by a protocol role or by the
\* connection manager, carries the reason Fresh and a negotiated key.  Every
\* Stale update the sink observes is made by the worker itself, at startup,
\* on a timeout or on shutdown, takes no request from the channel, and
\* carries the random key drawn for it, which is neither a key that a request
\* installed nor the key the sink held at the start; every update that a
\* request causes is Fresh.
C33_Senders ==
    \A i \in 1..Len(requests) :
        requests[i].reason = Fresh /\ requests[i].key \in OskKeys
C33_SinkState ==
    /\ sink.reason = Stale =>
           /\ sink.cause \in {"startup", "timeout", "shutdown"}
           /\ sink.key = RandomKey
           /\ sink.key \notin OskKeys \cup {Preexisting.key}
    /\ sink.cause = "request" => sink.reason = Fresh /\ sink.key \in OskKeys
C33_StaleStep ==
    (sink' # sink /\ sink'.reason = Stale) =>
        /\ requests' = requests
        /\ \/ worker = "spawned" /\ sink'.cause = "startup"
           \/ worker = "waiting" /\ ~closed /\ since_reset >= erase_after
                /\ sink'.cause = "timeout"
           \/ worker = "waiting" /\ closed /\ sink'.cause = "shutdown"
C33_StaleOrigin ==
    /\ [](C33_Senders /\ C33_SinkState)
    /\ [][C33_StaleStep]_vars
\* The worker erased a Fresh key on a timeout with the random key, and a role
\* has made its next request since.
C33_Witness ==
    /\ sink.reason = Stale
    /\ sink.cause = "timeout"
    /\ sink.prev = Fresh
    /\ sink.key = RandomKey
    /\ Len(requests) = 1
    /\ requests[1].reason = Fresh

\* The manager and the deadman's worker as the runtime schedules them: a
\* manager that can take an event or complete its send does so, and so does
\* the worker on its own thread; the sink completes each update.
SerOthers ==
    UNCHANGED <<dmVars, kdfVars, rndVars, procVars, outVars, tlsVars, cadVars>>
SpecSerialFair ==
    /\ SpecSerial
    /\ WF_vars(SerHandleExit /\ SerOthers)
    /\ WF_vars(SerHandleOsk /\ SerOthers)
    /\ WF_vars(SerSetOsk /\ SerOthers)
    /\ WF_vars(SerWorkerRecv /\ SerOthers)

\* C34: with both channels bounded, no back-pressure stops the server: a
\* manager waiting in its send to the deadman always gets to complete it, and
\* once the tasks report no more, every event they enqueued has been taken by
\* the manager and every request the manager made of the deadman has been
\* received by the worker, which forwards it to the sink: both channels are
\* empty and the manager is back at its select, for good.
C34_NoDeadlock ==
    /\ (manager_pc = "set_osk") ~> (manager_pc = "select")
    /\ <>[](/\ manager_notification = <<>>
            /\ manager_pc = "select"
            /\ deadman_rx = <<>>
            /\ received = Len(handled))
\* Back-pressure at its worst: the deadman's channel is full, the manager
\* waits in its send, and its own channel is full of events behind it.
C34_Witness ==
    /\ manager_pc = "set_osk"
    /\ Len(deadman_rx) = Min(DEADMAN_CHANNEL_CAPACITY, MaxRequests)
    /\ Len(manager_notification) = Min(MANAGER_CHANNEL_CAPACITY, MaxInFlight)
    /\ Len(handled) = MaxReported

\* C35: the manager's channel hands over the events of a connection in the
\* order its task produced them: the channel changes only by an event added
\* at its end or its head taken.  A task's Exit is the last event it
\* produces: no event of the same connection is behind an Exit in the
\* channel, no task adds an event once it has emitted its Exit, there is at
\* most one Exit per connection, and the manager never takes an Osk or a
\* second Exit of a connection whose Exit it has handled.
C35_ChannelOrder ==
    /\ \A i \in 1..Len(manager_notification) :
           manager_notification[i].kind = "Exit" =>
               /\ manager_notification[i].connection_id \in finished
               /\ \A j \in (i + 1)..Len(manager_notification) :
                      manager_notification[j].connection_id #
                          manager_notification[i].connection_id
    /\ \A i \in 1..Len(manager_notification) :
           manager_notification[i].connection_id \notin exit_handled
    /\ exit_handled \subseteq finished
C35_ChannelStep ==
    manager_notification' # manager_notification =>
        \/ /\ manager_notification # <<>>
           /\ manager_notification' = Tail(manager_notification)
        \/ \E c \in 0..(next_connection_id - 1), k \in OskKeys :
               /\ c \notin exit_handled
               /\ c \notin finished
               /\ manager_notification' \in
                      {Append(manager_notification, OskEvent(c, k, Fresh)),
                       Append(manager_notification, ExitEvent(c))}
C35_EventOrder ==
    /\ []C35_ChannelOrder
    /\ [][C35_ChannelStep]_vars
    /\ [][finished \subseteq finished']_vars
    /\ [][(ManagerTakes("Osk") \/ ManagerTakes("Exit")) =>
            Head(manager_notification).connection_id \notin exit_handled]_vars
\* The manager has handled the Exit of connection 0, after forwarding two
\* keys it had reported before, and connection 1 has reported since.
C35_Witness ==
    /\ exit_handled = {0}
    /\ Len(handled) = 2
    /\ promoted = <<0>>
    /\ manager_notification # <<>>
    /\ Head(manager_notification) = OskEvent(1, "k1", Fresh)

\* C36: a failure of the manager is terminal.  A forward that fails because
\* the deadman's channel is closed makes event_loop return the error, and so
\* does an error of accept; event_loop returns an error for no other reason.
\* Once it has returned it takes no event from its channel, accepts no
\* connection and forwards nothing: the manager's state stays as it was.
C36_ReturnStep ==
    manager_pc' # manager_pc =>
        /\ (manager_pc = "set_osk" /\ ~deadman_open) =>
               manager_pc' = "returned_err"
        /\ manager_pc' = "returned_err" =>
               \/ manager_pc = "set_osk" /\ ~deadman_open
               \/ manager_pc = "select"
C36_AfterReturn ==
    manager_pc = "returned_err" =>
        /\ manager_pc' = "returned_err"
        /\ UNCHANGED <<next_connection_id, active_connection,
                       budding_connections, aborted, promoted, last_forward,
                       outcome, handled, pending, exit_handled>>
        /\ Len(manager_notification') >= Len(manager_notification)
        /\ Len(deadman_rx') <= Len(deadman_rx)
C36_ClosedChannel ==
    ~deadman_open =>
        /\ deadman_rx' = deadman_rx
        /\ received' = received
        /\ ~deadman_open'
C36_FailureIsTerminal ==
    /\ [][C36_ReturnStep]_vars
    /\ [][C36_AfterReturn]_vars
    /\ [][C36_ClosedChannel]_vars
\* The second forward failed on the closed channel after the first had been
\* received: the loop has returned with events still waiting in the channel.
C36_Witness ==
    /\ manager_pc = "returned_err"
    /\ ~deadman_open
    /\ Len(handled) = 2
    /\ received = 1
    /\ deadman_rx = <<>>
    /\ manager_notification # <<>>

\* C37: the deadman's channel changes only by a request added at its end, or
\* by the worker taking its head; the worker forwards the request it takes to
\* the sink in that same step, once, with the key and the reason it carries;
\* the sink observes an update caused by a request in no other step.  Once
\* the last handle is dropped no request is added, and the worker makes its
\* shutdown erasure and exits only when the channel is empty: whatever was
\* enqueued before has been forwarded by then.
C37_ForwardStep ==
    /\ requests # <<>>
    /\ requests' = Tail(requests)
    /\ sink'.key = Head(requests).key
    /\ sink'.reason = Head(requests).reason
    /\ sink'.cause = "request"
    /\ sink'.prev = sink.reason
    /\ sink_age' = 0
C37_EnqueueStep ==
    /\ ~closed
    /\ \E req \in [key : OskKeys, reason : {Fresh}] :
           requests' = Append(requests, req)
    /\ sink' = sink
C37_DeadmanForwarding ==
    /\ [][requests' # requests => (C37_ForwardStep \/ C37_EnqueueStep)]_vars
    /\ [][(sink' # sink /\ sink'.cause = "request") => C37_ForwardStep]_vars
    /\ [][(worker # "exited" /\ worker' = "exited") =>
            (closed /\ requests = <<>> /\ sink'.cause = "shutdown")]_vars
    /\ [](worker = "exited" => requests = <<>>)
\* Two requests were enqueued and the last handle dropped; the worker has
\* forwarded the first and the second is still in the channel.
C37_Witness ==
    /\ closed
    /\ worker = "waiting"
    /\ sink.cause = "request"
    /\ sink.key = "k1"
    /\ Len(requests) = 1
    /\ requests[1].key = "k2"

\* C38: while the active connection's server role completes each round in
\* less than 30 seconds after its rekey_interval sleep, the deadline of
\* erase_after = rekey_interval + 30 seconds never elapses once the first
\* Fresh update is in: the worker has always restarted it less than
\* erase_after seconds ago, and the sink, once it holds a Fresh key, observes
\* Fresh updates only.
C38_DeadlineAhead ==
    (worker = "waiting" /\ sink.reason = Fresh) =>
        /\ erase_after = rekey_interval(interval_secs) + 30
        /\ since_reset < erase_after
        /\ requests = <<>> => since_reset <= since_arrival
        /\ since_arrival <= rekey_interval(interval_secs) + MaxHealthyLatency
C38_SteadyCadence ==
    /\ []C38_DeadlineAhead
    /\ [][sink.reason = Fresh => sink'.reason = Fresh]_vars
\* The slowest healthy round is about to deliver: the sink holds the second
\* Fresh key and the deadline is one second away.
C38_Witness ==
    /\ role_pc = "negotiate_key"
    /\ role_clock = MaxHealthyLatency
    /\ sink.reason = Fresh
    /\ sink.prev = Fresh
    /\ since_reset = erase_after - 1
    /\ requests = <<>>

====
